---- MODULE Spec2Model ----
(***************************************************************************)
(* A model of the Linmo kernel core: the weighted round-robin scheduler,   *)
(* the tick dispatcher, task suspend/resume, the counting semaphore, the   *)
(* non-recursive mutex and the condition variable, together with the       *)
(* spinlocks that bracket their critical sections.                         *)
(*                                                                         *)
(* One hardware thread: the task named by task_current is the one whose    *)
(* code executes.  A critical section (spin_lock_irqsave ...               *)
(* spin_unlock_irqrestore) runs with interrupts disabled and is one step;  *)
(* between two steps of a task interrupts are enabled and the tick ISR     *)
(* (action dispatcher) may run.  A task that calls spin_lock on a lock     *)
(* that is already taken spins with interrupts disabled: nothing else can  *)
(* run from then on.                                                       *)
(***************************************************************************)
EXTENDS Integers, Sequences, FiniteSets, TLC

(* ------------------------------ bounds -------------------------------- *)
\* application tasks spawned by app_main (the idle task is spawned after them)
NApp == 3
\* the tick counter is followed up to this value
MaxTicks == 2
\* timeouts passed to mo_mutex_timedlock / mo_cond_timedwait are 0..MaxTimeout
MaxTimeout == 1
\* initial_count passed to mo_sem_create is 0..MaxInitCount
MaxInitCount == 1
\* ceiling of the semaphore count (a small stand-in for the header's value)
SEM_MAX_COUNT == 2
\* ticks passed to mo_task_delay are 0..MaxDelay
MaxDelay == 2
\* mo_task_spawn is followed for MaxSpawns values of next_tid
MaxSpawns == 4
\* capacity the message queue is created with
MaxItems == 2
\* a task that counts and yields in a loop is followed for MaxRuns rounds
MaxRuns == 10
\* the size passed to mo_pipe_create
PipeSize == 2
\* len passed to the pipe calls is 0..MaxLen
MaxLen == 3
\* the pipe is followed until it has accepted MaxBytes bytes
MaxBytes == 3
\* number of timers app_main creates
NTimers == 2
NBatch == 10
\* number of distinct messages
NMsgs == 2

(* ------------------------- program constants -------------------------- *)
SCHED_IMAX == 500
TASK_PRIO_CRIT == 257
TASK_PRIO_REALTIME == 771
TASK_PRIO_HIGH == 1799
TASK_PRIO_NORMAL == 7967
TASK_PRIO_IDLE == 65535
\* next_tid and task_count are uint16_t
UINT16_MOD == 65536
\* tick frequency in Hz
F_TIMER == 100
\* a tick handler fires at most this many timers
TIMER_BATCH == 8

TASK_READY == "READY"
TASK_RUNNING == "RUNNING"
TASK_BLOCKED == "BLOCKED"
TASK_SUSPENDED == "SUSPENDED"
TASK_STOPPED == "STOPPED"

TIMER_DISABLED == "DISABLED"
TIMER_ONESHOT == "ONESHOT"
TIMER_AUTORELOAD == "AUTORELOAD"

ERR_OK == "ERR_OK"
ERR_FAIL == "ERR_FAIL"
ERR_TASK_BUSY == "ERR_TASK_BUSY"
ERR_TASK_CANT_SUSPEND == "ERR_TASK_CANT_SUSPEND"
ERR_TASK_CANT_RESUME == "ERR_TASK_CANT_RESUME"
ERR_NOT_OWNER == "ERR_NOT_OWNER"
ERR_TIMEOUT == "ERR_TIMEOUT"
ERR_MQ_NOTEMPTY == "ERR_MQ_NOTEMPTY"
ERR_TASK_NOT_FOUND == "ERR_TASK_NOT_FOUND"
ERR_TASK_CANT_REMOVE == "ERR_TASK_CANT_REMOVE"
ERR_TASK_INVALID_PRIO == "ERR_TASK_INVALID_PRIO"
\* ERR_FAIL as the int32_t a pipe call returns: negative, never a byte count
PIPE_ERR_FAIL == -1

\* the magic numbers that mark a valid semaphore, mutex, condition variable
\* (the mutex header defines the last two; here they are distinct non-zero tags)
SEM_MAGIC == 1397050624
MUTEX_MAGIC == 1
COND_MAGIC == 2

NTasks == NApp + 1
Tasks == 1..NTasks
AppTasks == 1..NApp
IdleTask == NTasks

VARIABLES
  state,            \* tcb->state of every task
  prio,             \* tcb->prio: base byte * 256 + countdown byte
  delay,            \* tcb->delay
  task_current,     \* kcb->task_current (the task whose code executes)
  last_ready_hint,  \* kcb->last_ready_hint (0 = NULL)
  ticks,            \* kcb->ticks
  preemptive,       \* kcb->preemptive
  panicked,         \* panic() was called: interrupts off, system halted
  semaphore_lock,   \* the semaphore module's spinlock word
  mutex_lock,       \* the mutex/condvar module's spinlock word
  sem,              \* the semaphore: count, wait_q, max_waiters
  sem_initial,      \* the initial_count the semaphore was created with
  mtx,              \* the mutex: owner_tid, waiters
  cnd,              \* the condition variable: waiters
  pc,               \* where each task is in its code
  deadline,         \* the local 'deadline' of a timed call in progress
  ev,               \* what the last step did at the API: task, call, outcome
  owns,             \* tasks between a lock call that returned ERR_OK and their unlock
  held,             \* tokens a task took (wait returned) and did not yet signal
  disciplined,      \* no task has signalled without holding a token
  mq,               \* the message queue: its queue_t and whether it was freed
  tasks,            \* kcb->tasks: the TCBs on the master list, in list order
  tid,              \* tcb->id of every TCB
  next_tid,         \* kcb->next_tid
  task_count,       \* kcb->task_count
  spawning,         \* the local 'tcb' of a mo_task_spawn in progress (0 = none)
  delay_until,      \* history: mo_ticks() + n of the task's pending mo_task_delay(n)
  runs,             \* the per-task counters of tasks that count and yield in a loop
  pipe,             \* the pipe: mask, head, tail, used, buf
  pio,              \* locals of a blocking pipe call: i, len, wfi's current_ticks
  pipe_puts,        \* history: number of bytes the pipe has accepted so far
  pipe_out,         \* history: the bytes handed to readers, in order
  timers,           \* the timer_t objects: period_ms, deadline_ticks, mode
  timer_list,       \* kcb->timer_list: the active timers, in list order
  timer_age,        \* history: ticks since the timer was armed (started or reloaded)
  timer_fires,      \* history: callbacks of the timer since its last mo_timer_start
  rt_prio           \* tcb->rt_prio of every task is not NULL

vars == <<state, prio, delay, task_current, last_ready_hint, ticks, preemptive,
          panicked, semaphore_lock, mutex_lock, sem, sem_initial, mtx, cnd, pc,
          deadline, ev, owns, held, disciplined, mq, tasks, tid, next_tid,
          task_count, spawning, delay_until, runs, pipe, pio, pipe_puts,
          pipe_out, timers, timer_list, timer_age, timer_fires, rt_prio>>

schedVars == <<state, prio, delay, task_current, last_ready_hint, panicked>>
kcbConst == <<ticks, preemptive>>
semVars == <<semaphore_lock, sem, sem_initial, held, disciplined>>
mtxVars == <<mutex_lock, mtx, cnd, owns, deadline>>
listVars == <<tasks, tid, next_tid, task_count, spawning>>
pipeVars == <<pipe, pio, pipe_puts, pipe_out>>
timerVars == <<timers, timer_list, timer_age, timer_fires>>
restVars == <<delay_until, runs, rt_prio, pipeVars, timerVars>>
otherVars == <<mq, listVars, restVars>>

NoEv == [t |-> 0, op |-> "none", r |-> "none"]
Ev(t, o, r) == [t |-> t, op |-> o, r |-> r]

(* ------------------------- lists and queues --------------------------- *)
InList(l, x) == \E i \in 1..Len(l) : l[i] = x

\* the position of node x in list l
list_index(l, x) == CHOOSE i \in 1..Len(l) : l[i] = x

\* list_cnext: the successor in the circular task list
list_cnext(node) == tasks[(list_index(tasks, node) % Len(tasks)) + 1]

\* list_pushback / queue_enqueue append, list_pop / queue_dequeue take the head
list_pushback(l, x) == Append(l, x)
list_pop_rest(l) == Tail(l)
list_head(l) == Head(l)

\* find_node_by_data + list_remove: drop the first node that holds x
RECURSIVE list_remove_data(_, _)
list_remove_data(l, x) ==
  IF l = <<>> THEN <<>>
  ELSE IF Head(l) = x THEN Tail(l)
  ELSE <<Head(l)>> \o list_remove_data(Tail(l), x)

(* ------------------------------ ring buffer --------------------------- *)
\* ++ and -- on a uint16_t field
inc16(c) == (c + 1) % UINT16_MOD

\* mutation of dec16: the decrement is lost
dec16_mutant(c) == c

dec16(c) == (c - 1) % UINT16_MOD

\* x & m for a mask m = 2^k - 1
and_mask(x, m) == x % (m + 1)

ispowerof2(x) == x \in {1, 2, 4, 8, 16}
nextpowerof2(x) == CHOOSE y \in {1, 2, 4, 8, 16} :
                     y >= x /\ \A z \in {1, 2, 4, 8, 16} : z >= x => y <= z

\* mo_pipe_create: at least two bytes, rounded up to a power of two, empty
mo_pipe_create(size) ==
  LET s1 == IF size < 2 THEN 2 ELSE size
      s2 == IF ispowerof2(s1) THEN s1 ELSE nextpowerof2(s1)
  IN [mask |-> s2 - 1, head |-> 0, tail |-> 0, used |-> 0,
      buf |-> [k \in 0..(s2 - 1) |-> 0]]

pipe_is_empty(p) == p.used = 0
pipe_is_full(p) == p.used = p.mask + 1

\* pipe_get_byte: the byte it returns, and the pipe it leaves
pipe_get_val(p) == p.buf[p.head]
\* mutation of pipe_get_byte: head does not advance
pipe_get_byte_mutant(p) == [p EXCEPT !.used = dec16(p.used)]

pipe_get_byte(p) ==
  [p EXCEPT !.head = and_mask(p.head + 1, p.mask), !.used = dec16(p.used)]

pipe_put_byte(p, ch) ==
  [p EXCEPT !.buf[p.tail] = ch, !.tail = and_mask(p.tail + 1, p.mask),
            !.used = inc16(p.used)]

\* the loop of mo_pipe_nbread: the pipe after it and the bytes it copied out
RECURSIVE nbread_loop(_, _, _)
nbread_loop(p, len, out) ==
  IF Len(out) < len /\ ~pipe_is_empty(p)
  THEN nbread_loop(pipe_get_byte(p), len, Append(out, pipe_get_val(p)))
  ELSE [pipe |-> p, out |-> out]

\* the loop of mo_pipe_nbwrite writing the bytes of src: the pipe after it and
\* the number of bytes it took
RECURSIVE nbwrite_loop(_, _, _)
nbwrite_loop(p, src, i) ==
  IF i < Len(src) /\ ~pipe_is_full(p)
  THEN nbwrite_loop(pipe_put_byte(p, src[i + 1]), src, i + 1)
  ELSE [pipe |-> p, i |-> i]

(* ------------------------------- timers ------------------------------- *)
\* A uint32_t value v is written v when v < 2^31 and v - 2^32 otherwise, so
\* that the values just below the wrap of the tick counter are -1, -2, ...
\* and ++ steps from -1 to 0.  add32 is + and u32_ge is >= on uint32_t values
\* written this way (the values followed stay close to 0).
add32(a, k) == a + k
u32_ge(a, b) == IF (a < 0) = (b < 0) THEN a >= b ELSE a < 0
u32_lt(a, b) == ~u32_ge(a, b)

MS_TO_TICKS(ms) == (ms * F_TIMER) \div 1000

\* the timers app_main creates, and the periods (in ms) it gives them
Timers == 1..NTimers
TimerPeriods == [k \in 1..NBatch |-> IF k = 2 THEN 30 ELSE 10]

\* what a timer's callback does: nothing to the timers (op "none"), or a call
\* of mo_timer_start(target, mode) or of mo_timer_cancel(target)
NoTimerCall == [op |-> "none", target |-> 0, mode |-> TIMER_DISABLED]

\* the timer with this id (the ids are handed out from 0x6000 on), 0 if none;
\* live says that the timer is on all_timers_list: created and not destroyed
TimerId(k) == 24576 + k - 1
timer_find_by_id_fast(id) ==
  IF \E k \in DOMAIN timers : TimerId(k) = id /\ timers[k].live
  THEN CHOOSE k \in DOMAIN timers : TimerId(k) = id /\ timers[k].live ELSE 0

\* timer_remove_item_by_data
timer_remove_item_by_data(l, k) == list_remove_data(l, k)

\* mutation of timer_sorted_insert: before the first timer whose deadline is
\* not earlier
RECURSIVE timer_sorted_insert_mutant(_, _, _)
timer_sorted_insert_mutant(l, tm, k) ==
  IF l = <<>> THEN <<k>>
  ELSE IF ~u32_lt(tm[Head(l)].deadline_ticks, tm[k].deadline_ticks)
  THEN <<k>> \o l
  ELSE <<Head(l)>> \o timer_sorted_insert_mutant(Tail(l), tm, k)

\* timer_sorted_insert: before the first timer with a later deadline
RECURSIVE timer_sorted_insert(_, _, _)
timer_sorted_insert(l, tm, k) ==
  IF l = <<>> THEN <<k>>
  ELSE IF u32_lt(tm[k].deadline_ticks, tm[Head(l)].deadline_ticks)
  THEN <<k>> \o l
  ELSE <<Head(l)>> \o timer_sorted_insert(Tail(l), tm, k)

\* mutation of timer_expired_count: no limit on the timers popped in a tick
RECURSIVE timer_expired_count_mutant(_, _, _, _)
timer_expired_count_mutant(l, tm, now, n) ==
  IF l # <<>> /\ u32_ge(now, tm[Head(l)].deadline_ticks)
  THEN timer_expired_count_mutant(Tail(l), tm, now, n + 1)
  ELSE n

\* the first loop of _timer_tick_handler: how many timers it pops
RECURSIVE timer_expired_count(_, _, _, _)
timer_expired_count(l, tm, now, n) ==
  IF l # <<>> /\ n < TIMER_BATCH /\ u32_ge(now, tm[Head(l)].deadline_ticks)
  THEN timer_expired_count(Tail(l), tm, now, n + 1)
  ELSE n

\* mutation of timer_fired: a one-shot timer keeps its mode
timer_fired_mutant(tm, k, now) ==
  IF tm[k].mode = TIMER_AUTORELOAD
  THEN [tm EXCEPT ![k].deadline_ticks = add32(now, MS_TO_TICKS(tm[k].period_ms))]
  ELSE tm

\* what the tick handler does to timer k after its callback: an AUTORELOAD
\* timer gets a new deadline, any other is done
timer_fired(tm, k, now) ==
  IF tm[k].mode = TIMER_AUTORELOAD
  THEN [tm EXCEPT ![k].deadline_ticks = add32(now, MS_TO_TICKS(tm[k].period_ms))]
  ELSE [tm EXCEPT ![k].mode = TIMER_DISABLED]

\* the body of mo_timer_start between lock and unlock, on the timers tm and
\* the active list l at tick now
timer_start(tm, l, id, mode, now) ==
  IF mode \notin {TIMER_ONESHOT, TIMER_AUTORELOAD} \/ timer_find_by_id_fast(id) = 0
  THEN [timers |-> tm, list |-> l, r |-> ERR_FAIL]
  ELSE LET k == timer_find_by_id_fast(id)
           l1 == IF tm[k].mode # TIMER_DISABLED
                 THEN timer_remove_item_by_data(l, k) ELSE l
           tm1 == [tm EXCEPT
                     ![k].mode = mode,
                     ![k].deadline_ticks =
                        add32(now, MS_TO_TICKS(tm[k].period_ms)),
                     ![k].stopped = FALSE]
       IN [timers |-> tm1, list |-> timer_sorted_insert(l1, tm1, k), r |-> ERR_OK]

\* the body of mo_timer_cancel
timer_cancel(tm, l, id) ==
  IF timer_find_by_id_fast(id) = 0
  THEN [timers |-> tm, list |-> l, r |-> ERR_FAIL]
  ELSE LET k == timer_find_by_id_fast(id) IN
       IF tm[k].mode = TIMER_DISABLED
       THEN [timers |-> tm, list |-> l, r |-> ERR_FAIL]
       ELSE [timers |-> [tm EXCEPT ![k].mode = TIMER_DISABLED,
                                   ![k].stopped = TRUE],
             list |-> timer_remove_item_by_data(l, k), r |-> ERR_OK]

\* t->callback(t->arg) for timer k
timer_callback(tm, l, k, now) ==
  LET cb == tm[k].callback IN
  IF cb.op = "start" THEN timer_start(tm, l, TimerId(cb.target), cb.mode, now)
  ELSE IF cb.op = "cancel" THEN timer_cancel(tm, l, TimerId(cb.target))
  ELSE [timers |-> tm, list |-> l, r |-> "none"]

\* the second loop of _timer_tick_handler over the expired timers exp: the
\* callback is called, and a timer whose mode is then AUTORELOAD is put back
\* on the active list
RECURSIVE timer_process(_, _, _, _)
timer_process(exp, tm, l, now) ==
  IF exp = <<>> THEN [timers |-> tm, list |-> l]
  ELSE LET k == Head(exp)
           c == timer_callback(tm, l, k, now)
           tm1 == timer_fired(c.timers, k, now)
       IN timer_process(Tail(exp), tm1,
                        IF c.timers[k].mode = TIMER_AUTORELOAD
                        THEN timer_sorted_insert(c.list, tm1, k) ELSE c.list,
                        now)

\* _timer_tick_handler at tick 'now'
timer_tick_handler(now) ==
  LET n == timer_expired_count(timer_list, timers, now, 0)
      exp == SubSeq(timer_list, 1, n)
      r == timer_process(exp, timers, SubSeq(timer_list, n + 1, Len(timer_list)), now)
      fired(k) == InList(exp, k)
  IN /\ timers' = r.timers
     /\ timer_list' = r.list
     /\ timer_fires' = [k \in DOMAIN timers |->
                          IF fired(k) THEN timer_fires[k] + 1 ELSE timer_fires[k]]
     /\ timer_age' = [k \in DOMAIN timers |->
                        IF fired(k) THEN 0
                        ELSE IF InList(timer_list, k) THEN timer_age[k] + 1
                        ELSE timer_age[k]]

(* ------------------------------ scheduler ----------------------------- *)
Counter(p) == p % 256
Base(p) == (p \div 256) % 256
SetCounter(p, c) == (p \div 256) * 256 + c

\* delay_update over the whole task list
delay_update_state(st, dl) ==
  [t \in Tasks |-> IF /\ InList(tasks, t)
                      /\ st[t] = TASK_BLOCKED /\ dl[t] > 0 /\ dl[t] - 1 = 0
                   THEN TASK_READY ELSE st[t]]
delay_update_delay(st, dl) ==
  [t \in Tasks |-> IF InList(tasks, t) /\ st[t] = TASK_BLOCKED /\ dl[t] > 0
                   THEN dl[t] - 1 ELSE dl[t]]

\* The while loop of find_next_ready_task, iteration by iteration: it steps to
\* list_cnext(node), skips a task that is not READY or has an rt hook
\* (rt_prio not NULL), decrements the countdown
\* byte of a READY one (not below zero) and selects it when the byte is zero,
\* reloading the byte from the base byte; after SCHED_IMAX iterations it gives
\* up.  ready_walk computes the outcome of that loop without unrolling it:
\* walk_pos(cur, n) is the iteration of the first lap that visits n,
\* walk_need(pr, n) the visit at which n's byte reaches zero, walk_iter the
\* iteration at which the loop would select n, walk_visits the number of
\* visits n has had after 'last' iterations.
walk_pos(cur, n) ==
  ((list_index(tasks, n) - list_index(tasks, cur) - 1 + Len(tasks)) % Len(tasks)) + 1
\* mutation of walk_need: a task is selected at its first visit
walk_need_mutant(pr, n) == 1

walk_need(pr, n) == IF Counter(pr[n]) = 0 THEN 1 ELSE Counter(pr[n])
walk_iter(pr, cur, n) == (walk_need(pr, n) - 1) * Len(tasks) + walk_pos(cur, n)
walk_visits(cur, n, last) ==
  IF last < walk_pos(cur, n) THEN 0
  ELSE (last - walk_pos(cur, n)) \div Len(tasks) + 1

\* mutation of round_robin_ready: the rt hook is not looked at
round_robin_ready_mutant(st, n) == st[n] = TASK_READY

\* the test  task->state != TASK_READY || task->rt_prio  that skips a task
round_robin_ready(st, n) == st[n] = TASK_READY /\ ~rt_prio[n]

ready_walk(st, pr, cur) ==
  LET cand == {n \in Tasks : /\ InList(tasks, n)
                             /\ round_robin_ready(st, n)
                             /\ walk_iter(pr, cur, n) <= SCHED_IMAX}
      sel == IF cand = {} THEN 0
             ELSE CHOOSE n \in cand :
                    \A m \in cand : walk_iter(pr, cur, n) <= walk_iter(pr, cur, m)
      last == IF sel = 0 THEN SCHED_IMAX ELSE walk_iter(pr, cur, sel)
      dec(n) == LET c == Counter(pr[n]) - walk_visits(cur, n, last)
                IN IF c > 0 THEN c ELSE 0
  IN [node |-> sel,
      prio |-> [n \in Tasks |->
                  IF n = sel THEN SetCounter(pr[n], Base(pr[n]))
                  ELSE IF InList(tasks, n) /\ round_robin_ready(st, n)
                  THEN SetCounter(pr[n], dec(n))
                  ELSE pr[n]]]

find_next_ready_task(st, pr, hint, cur) ==
  IF hint # 0 /\ round_robin_ready(st, hint) /\ Counter(pr[hint]) = 0
  THEN [node |-> hint, hint |-> hint,
        prio |-> [pr EXCEPT ![hint] = SetCounter(@, Base(@))]]
  ELSE LET w == ready_walk(st, pr, cur)
       IN [node |-> w.node, hint |-> w.node, prio |-> w.prio]

\* schedule_next_task, from task states st and delays dl
schedule_next_task(st, dl) ==
  LET st1 == IF st[task_current] = TASK_RUNNING
             THEN [st EXCEPT ![task_current] = TASK_READY] ELSE st
      f == find_next_ready_task(st1, prio, last_ready_hint, task_current)
  IN /\ prio' = f.prio
     /\ last_ready_hint' = f.hint
     /\ delay' = dl
     /\ IF f.node = 0
        THEN /\ panicked' = TRUE
             /\ state' = st1
             /\ task_current' = task_current
        ELSE /\ panicked' = panicked
             /\ state' = [st1 EXCEPT ![f.node] = TASK_RUNNING]
             /\ task_current' = f.node

\* yield(): the cooperative switch; delays age here in cooperative mode only
yield(st) ==
  IF preemptive THEN schedule_next_task(st, delay)
  ELSE schedule_next_task(delay_update_state(st, delay), delay_update_delay(st, delay))

\* dispatch(): the switch made by the tick ISR
dispatch(st) ==
  schedule_next_task(delay_update_state(st, delay), delay_update_delay(st, delay))

SpinPcs == {"spin_sem_wait", "spin_sem_trywait", "spin_sem_signal",
            "spin_mutex_lock", "spin_mutex_trylock", "spin_mutex_timedlock",
            "spin_mutex_unlock", "spin_cond_wait", "spin_cond_timedwait",
            "spin_cond_signal", "spin_cond_broadcast",
            "spin_sem_destroy", "spin_mutex_destroy", "spin_cond_destroy"}

\* task t is the one the CPU executes, and it is not stuck on a spinlock
Running(t) == ~panicked /\ task_current = t /\ pc[t] \notin SpinPcs
InUser(t) == Running(t) /\ pc[t] = "user"

Goto(t, l) == pc' = [pc EXCEPT ![t] = l]

(* ------------------------------- boot --------------------------------- *)
\* main(): app_main has spawned the application tasks and chosen the mode, the
\* idle task is spawned last, and the first task is launched without a pass
\* through the scheduler, so no task is RUNNING yet.  The first task has then
\* given every task, the idle task included, TASK_PRIO_CRIT with
\* mo_task_priority, which makes the scheduler a plain round robin; Init is
\* the state right after that.
\* mo_task_priority: the base byte copied into both halves
priority_word(p) == (p \div 256) * 256 + (p \div 256)

\* the timers S that app_main has created with mo_timer_create, with
\* callbacks that do what cbs says; stopped records that the last call that
\* returned ERR_OK for the timer was mo_timer_cancel or mo_timer_destroy
InitTimers(S, cbs) ==
  /\ timers = [k \in S |-> [period_ms |-> TimerPeriods[k],
                             deadline_ticks |-> 0,
                             mode |-> TIMER_DISABLED,
                             callback |-> cbs[k],
                             live |-> TRUE,
                             stopped |-> FALSE]]
  /\ timer_age = [k \in S |-> 0]
  /\ timer_fires = [k \in S |-> 0]

\* everything but the timers; idle_prio is the priority the idle task was given
InitKernel(first_tid, idle_prio, first_tick) ==
  /\ state = [t \in Tasks |-> TASK_READY]
  /\ prio = [t \in Tasks |-> IF t = IdleTask THEN priority_word(idle_prio)
                            ELSE priority_word(TASK_PRIO_CRIT)]
  /\ delay = [t \in Tasks |-> 0]
  /\ task_current = 1
  /\ last_ready_hint = 0
  /\ ticks = first_tick
  /\ preemptive \in BOOLEAN
  /\ panicked = FALSE
  /\ semaphore_lock = 0
  /\ mutex_lock = 0
  /\ sem_initial \in 0..MaxInitCount
  /\ sem = [count |-> sem_initial, wait_q |-> <<>>, max_waiters |-> NApp,
            magic |-> SEM_MAGIC]
  /\ mtx = [owner_tid |-> 0, waiters |-> <<>>, magic |-> MUTEX_MAGIC]
  /\ cnd = [waiters |-> <<>>, magic |-> COND_MAGIC]
  /\ mq = [q |-> <<>>, max_items |-> MaxItems, freed |-> FALSE]
  /\ tasks = [i \in 1..NTasks |-> i]
  /\ tid = [t \in Tasks |-> t]
  /\ next_tid = first_tid
  /\ task_count = NTasks
  /\ spawning = [t \in Tasks |-> 0]
  /\ delay_until = [t \in Tasks |-> 0]
  /\ runs = [t \in Tasks |-> 0]
  /\ rt_prio = [t \in Tasks |-> FALSE]
  /\ pipe = mo_pipe_create(PipeSize)
  /\ pio = [t \in Tasks |-> [i |-> 0, len |-> 0, ticks |-> 0]]
  /\ pipe_puts = 0
  /\ pipe_out = <<>>
  /\ timer_list = <<>>
  /\ pc = [t \in Tasks |-> IF t = IdleTask THEN "idle" ELSE "user"]
  /\ deadline = [t \in Tasks |-> 0]
  /\ ev = NoEv
  /\ owns = {}
  /\ held = [t \in Tasks |-> 0]
  /\ disciplined = TRUE

\* the timers' callbacks call no timer function
InitAt(first_tid, idle_prio, first_tick) ==
  /\ InitKernel(first_tid, idle_prio, first_tick)
  /\ InitTimers(Timers, [k \in Timers |-> NoTimerCall])

\* the system runs from the boot on, when kcb->ticks is 0
InitPrio(first_tid, idle_prio) == InitAt(first_tid, idle_prio, 0)

InitWith(first_tid) == InitPrio(first_tid, TASK_PRIO_CRIT)

\* after a boot the tasks hold the ids 1..NTasks
Init == InitWith(NTasks + 1)

\* the idle task was given a priority below that of the application tasks
InitIdleLow == InitPrio(NTasks + 1, TASK_PRIO_REALTIME)

(* ----------------------------- task calls ----------------------------- *)
mo_task_yield(t) ==
  /\ InUser(t)
  /\ yield(state)
  /\ ev' = Ev(t, "yield", "none")
  /\ UNCHANGED <<pc, kcbConst, semVars, mtxVars>>
  /\ UNCHANGED otherVars

\* one round of idle_task,  while (1) mo_task_wfi();  in cooperative mode:
\* mo_task_wfi returns at once and the idle task stays the running task
idle_task ==
  /\ Running(IdleTask)
  /\ pc[IdleTask] = "idle"
  /\ ~preemptive
  /\ ev' = Ev(IdleTask, "wfi", "none")
  /\ UNCHANGED <<schedVars, pc, kcbConst, semVars, mtxVars, otherVars>>

\* dispatcher(): the timer interrupt.  It is taken only while interrupts are
\* enabled, that is between two steps of the running task; a task that spins
\* on a lock word does so with interrupts disabled and is never preempted.
dispatcher ==
  /\ preemptive
  /\ ~panicked
  /\ pc[task_current] \notin SpinPcs
  /\ ticks < MaxTicks
  /\ ticks' = add32(ticks, 1)
  /\ timer_tick_handler(add32(ticks, 1))
  /\ dispatch(state)
  /\ ev' = Ev(0, "tick", "none")
  /\ UNCHANGED <<pc, preemptive, semVars, mtxVars>>
  /\ UNCHANGED <<mq, listVars, delay_until, runs, rt_prio, pipeVars>>

mo_task_suspend(t, id) ==
  /\ InUser(t)
  /\ IF state[id] \notin {TASK_READY, TASK_RUNNING, TASK_BLOCKED}
     THEN /\ ev' = Ev(t, "suspend", ERR_TASK_CANT_SUSPEND)
          /\ UNCHANGED <<schedVars, pc>>
     ELSE /\ state' = [state EXCEPT ![id] = TASK_SUSPENDED]
          /\ last_ready_hint' = IF last_ready_hint = id THEN 0 ELSE last_ready_hint
          /\ pc' = IF id = t THEN [pc EXCEPT ![t] = "suspend_yield"] ELSE pc
          /\ ev' = Ev(t, "suspend", IF id = t THEN "none" ELSE ERR_OK)
          /\ UNCHANGED <<prio, delay, task_current, panicked>>
  /\ UNCHANGED <<kcbConst, semVars, mtxVars>>
  /\ UNCHANGED otherVars

\* the mo_task_yield() that ends a suspend of the caller itself
mo_task_suspend_yield(t) ==
  /\ Running(t)
  /\ pc[t] = "suspend_yield"
  /\ yield(state)
  /\ Goto(t, "user")
  /\ ev' = Ev(t, "suspend", ERR_OK)
  /\ UNCHANGED <<kcbConst, semVars, mtxVars>>
  /\ UNCHANGED otherVars

mo_task_resume(t, id) ==
  /\ InUser(t)
  /\ IF state[id] # TASK_SUSPENDED
     THEN /\ ev' = Ev(t, "resume", ERR_TASK_CANT_RESUME)
          /\ UNCHANGED state
     ELSE /\ state' = [state EXCEPT ![id] = TASK_READY]
          /\ ev' = Ev(t, "resume", ERR_OK)
  /\ UNCHANGED <<prio, delay, task_current, last_ready_hint, panicked, pc,
                 kcbConst, semVars, mtxVars>>
  /\ UNCHANGED otherVars

\* mo_task_delay up to the end of its critical section
mo_task_delay(t, n) ==
  /\ InUser(t)
  /\ IF n = 0
     THEN /\ ev' = Ev(t, "delay", "none")
          /\ UNCHANGED <<state, delay, pc, delay_until>>
     ELSE /\ delay' = [delay EXCEPT ![t] = n]
          /\ state' = [state EXCEPT ![t] = TASK_BLOCKED]
          /\ delay_until' = [delay_until EXCEPT ![t] = ticks + n]
          /\ Goto(t, "delay_yield")
          /\ ev' = Ev(t, "delay", "BLOCK")
  /\ UNCHANGED <<prio, task_current, last_ready_hint, panicked, kcbConst,
                 semVars, mtxVars, mq, listVars, runs, rt_prio, pipeVars, timerVars>>

\* the mo_task_yield() that ends mo_task_delay
mo_task_delay_yield(t) ==
  /\ Running(t)
  /\ pc[t] = "delay_yield"
  /\ yield(state)
  /\ Goto(t, "delay_blocked")
  /\ ev' = Ev(t, "delay", "YIELD")
  /\ UNCHANGED <<kcbConst, semVars, mtxVars, otherVars>>

\* the task is switched in again and mo_task_delay returns
mo_task_delay_return(t) ==
  /\ Running(t)
  /\ pc[t] = "delay_blocked"
  /\ Goto(t, "user")
  /\ ev' = Ev(t, "delay", "RETURN")
  /\ delay_until' = [delay_until EXCEPT ![t] = 0]
  /\ UNCHANGED <<schedVars, kcbConst, semVars, mtxVars, mq, listVars, runs, rt_prio,
                 pipeVars, timerVars>>

(* -------------------------- spawn and cancel -------------------------- *)
\* The TCBs are the elements of Tasks; those not on kcb->tasks are free
\* memory.  malloc hands out the lowest free one, and fails when none is free.
FreeTcbs == {n \in Tasks : ~InList(tasks, n)}
malloc_tcb == CHOOSE n \in FreeTcbs : \A m \in FreeTcbs : n <= m

\* the values next_tid has when the first task is launched (after a boot, or
\* after many earlier spawns) and the spawns that are followed from there
TidStart == {NTasks + 1, UINT16_MOD - 2}
SpawnFollowed == \E s \in TidStart : (next_tid - s) % UINT16_MOD < MaxSpawns

\* mo_task_id()
mo_task_id == tid[task_current]

\* mutation of cancel_refused: a task may cancel itself
cancel_refused_mutant(id) == id = 0

\* the first test of mo_task_cancel
cancel_refused(id) == id = 0 \/ id = mo_task_id

\* find_task_node_by_id: the nodes of the task list whose TCB has this id; the
\* lookup cache decides which one is found when there are several
find_task_node_by_id(id) ==
  IF id = 0 THEN {} ELSE {n \in Tasks : InList(tasks, n) /\ tid[n] = id}

\* mo_task_spawn up to the end of its critical section
mo_task_spawn(t) ==
  /\ InUser(t)
  /\ SpawnFollowed
  /\ IF FreeTcbs = {}
     THEN \* malloc returned NULL: panic(ERR_TCB_ALLOC)
          /\ panicked' = TRUE
          /\ ev' = Ev(t, "spawn", "PANIC")
          /\ UNCHANGED <<state, prio, delay, pc, listVars, rt_prio>>
     ELSE LET tcb == malloc_tcb IN
          /\ delay' = [delay EXCEPT ![tcb] = 0]
          /\ state' = [state EXCEPT ![tcb] = TASK_STOPPED]
          /\ prio' = [prio EXCEPT ![tcb] = (TASK_PRIO_NORMAL \div 256) * 256]
          /\ tasks' = list_pushback(tasks, tcb)
          /\ tid' = [tid EXCEPT ![tcb] = next_tid]
          /\ next_tid' = inc16(next_tid)
          /\ task_count' = inc16(task_count)
          /\ spawning' = [spawning EXCEPT ![t] = tcb]
          /\ rt_prio' = [rt_prio EXCEPT ![tcb] = FALSE]
          /\ pc' = [pc EXCEPT ![t] = "spawn_init", ![tcb] = "user"]
          /\ ev' = Ev(t, "spawn", "LISTED")
          /\ UNCHANGED panicked
  /\ UNCHANGED <<task_current, last_ready_hint, kcbConst, semVars, mtxVars, mq,
                 delay_until, runs, pipeVars, timerVars>>

\* the rest of mo_task_spawn: the context is set up, the TCB becomes READY
\* and its id is returned
mo_task_spawn_ready(t) ==
  /\ Running(t)
  /\ pc[t] = "spawn_init"
  /\ state' = [state EXCEPT ![spawning[t]] = TASK_READY]
  /\ spawning' = [spawning EXCEPT ![t] = 0]
  /\ Goto(t, "user")
  /\ ev' = Ev(t, "spawn", tid[spawning[t]])
  /\ UNCHANGED <<prio, delay, task_current, last_ready_hint, panicked, kcbConst,
                 semVars, mtxVars, mq, tasks, tid, next_tid, task_count,
                 restVars>>

\* the ids a task may pass to mo_task_cancel: 0, the ids the TCBs hold (those
\* of freed TCBs name no task any more) and the id not yet given out
CancelIds == {0, next_tid} \cup {tid[n] : n \in Tasks}

\* mutation of cancel_unlink: the node stays on the task list
cancel_unlink_mutant(l, node) == l

\* list_remove(kcb->tasks, node) in mo_task_cancel; nothing else is unlinked
cancel_unlink(l, node) == list_remove_data(l, node)

mo_task_cancel(t, id) ==
  /\ InUser(t)
  /\ IF cancel_refused(id)
     THEN /\ ev' = Ev(t, "cancel", ERR_TASK_CANT_REMOVE)
          /\ UNCHANGED <<tasks, task_count, last_ready_hint>>
     ELSE IF find_task_node_by_id(id) = {}
     THEN /\ ev' = Ev(t, "cancel", ERR_TASK_NOT_FOUND)
          /\ UNCHANGED <<tasks, task_count, last_ready_hint>>
     ELSE \E node \in find_task_node_by_id(id) :
            IF state[node] = TASK_RUNNING
            THEN /\ ev' = Ev(t, "cancel", ERR_TASK_CANT_REMOVE)
                 /\ UNCHANGED <<tasks, task_count, last_ready_hint>>
            ELSE /\ tasks' = cancel_unlink(tasks, node)
                 /\ task_count' = dec16(task_count)
                 /\ last_ready_hint' = IF last_ready_hint = node THEN 0
                                       ELSE last_ready_hint
                 /\ ev' = Ev(t, "cancel", ERR_OK)
  /\ UNCHANGED <<state, prio, delay, task_current, panicked, pc, kcbConst,
                 semVars, mtxVars, mq, tid, next_tid, spawning, restVars>>

(* ------------------------------ priorities ---------------------------- *)
valid_priorities == {257, 771, 1799, 3855, 7967, 16191, 32639, 65535}
is_valid_priority(p) == p \in valid_priorities

\* the priorities passed to mo_task_priority (0 is not a priority)
SharePrios == {0, TASK_PRIO_HIGH, TASK_PRIO_NORMAL, TASK_PRIO_IDLE}

mo_task_priority(t, id, p) ==
  /\ InUser(t)
  /\ IF id = 0 \/ ~is_valid_priority(p)
     THEN /\ ev' = Ev(t, "priority", ERR_TASK_INVALID_PRIO)
          /\ UNCHANGED prio
     ELSE IF find_task_node_by_id(id) = {}
     THEN /\ ev' = Ev(t, "priority", ERR_TASK_NOT_FOUND)
          /\ UNCHANGED prio
     ELSE \E node \in find_task_node_by_id(id) :
            /\ prio' = [prio EXCEPT ![node] = priority_word(p)]
            /\ ev' = Ev(t, "priority", ERR_OK)
  /\ UNCHANGED <<state, delay, task_current, last_ready_hint, panicked, pc,
                 kcbConst, semVars, mtxVars, otherVars>>

\* mo_task_rt_priority(id, priority): hook says whether priority is not NULL
mo_task_rt_priority(t, id, hook) ==
  /\ InUser(t)
  /\ IF find_task_node_by_id(id) = {}
     THEN /\ ev' = Ev(t, "rt_priority", ERR_TASK_NOT_FOUND)
          /\ UNCHANGED rt_prio
     ELSE \E node \in find_task_node_by_id(id) :
            /\ rt_prio' = [rt_prio EXCEPT ![node] = hook]
            /\ ev' = Ev(t, "rt_priority", ERR_OK)
  /\ UNCHANGED <<schedVars, pc, kcbConst, semVars, mtxVars, mq, listVars,
                 delay_until, runs, pipeVars, timerVars>>

\* the first task sets the priorities before any task has entered its loop
mo_task_priority_setup(t, id, p) ==
  /\ \A u \in Tasks : runs[u] = 0
  /\ mo_task_priority(t, id, p)

\* one round of a task body  for (;;) { runs++; mo_task_yield(); }  in
\* cooperative mode, where nothing can come between the two statements
count_and_yield(t) ==
  /\ InUser(t)
  /\ ~preemptive
  /\ runs[t] < MaxRuns
  /\ runs' = [runs EXCEPT ![t] = @ + 1]
  /\ yield(state)
  /\ ev' = Ev(t, "yield", "none")
  /\ UNCHANGED <<pc, kcbConst, semVars, mtxVars, mq, listVars, delay_until,
                 rt_prio, pipeVars, timerVars>>

(* ------------------------- validity of objects ----------------------- *)
\* s->magic == SEM_MAGIC (the queue pointer is NULL exactly when magic is 0)
sem_is_valid(s) == s.magic = SEM_MAGIC
mutex_is_valid(m) == m.magic = MUTEX_MAGIC
cond_is_valid(c) == c.magic = COND_MAGIC

\* call o finds its object invalid and calls panic(ERR_SEM_OPERATION)
invalid_panic(t, o) ==
  /\ panicked' = TRUE
  /\ ev' = Ev(t, o, "PANIC")
  /\ UNCHANGED <<state, prio, delay, task_current, last_ready_hint, pc,
                 semVars, mtxVars>>

\* mutation of invalid_fail: the call reports success
invalid_fail_mutant(t, o) ==
  /\ ev' = Ev(t, o, ERR_OK)
  /\ UNCHANGED <<schedVars, pc, semVars, mtxVars>>

\* call o finds its object invalid and returns ERR_FAIL
invalid_fail(t, o) ==
  /\ ev' = Ev(t, o, ERR_FAIL)
  /\ UNCHANGED <<schedVars, pc, semVars, mtxVars>>

(* ------------------------------ semaphore ----------------------------- *)
queue_count(q) == Len(q)

SumHeld(h) == LET RECURSIVE S(_)
                  S(n) == IF n = 0 THEN 0 ELSE h[n] + S(n - 1)
              IN S(NTasks)

\* spin_lock on a lock word that is already 1: the caller spins, interrupts off
Hang(t, l, o) ==
  /\ Goto(t, l)
  /\ ev' = Ev(t, o, "HANG")
  /\ UNCHANGED <<schedVars, kcbConst, semVars, mtxVars>>

\* mutation of sem_available: the last token is never handed out on the fast path
sem_available_mutant(s) == s.count > 1 /\ queue_count(s.wait_q) = 0

\* the fast-path test of mo_sem_wait and mo_sem_trywait
sem_available(s) == s.count > 0 /\ queue_count(s.wait_q) = 0

mo_sem_wait(t) ==
  /\ InUser(t)
  /\ IF ~sem_is_valid(sem) THEN invalid_panic(t, "sem_wait")
     ELSE IF semaphore_lock = 1 THEN Hang(t, "spin_sem_wait", "sem_wait")
     ELSE IF sem_available(sem)
     THEN \* fast path
          /\ sem' = [sem EXCEPT !.count = @ - 1]
          /\ held' = IF disciplined THEN [held EXCEPT ![t] = @ + 1] ELSE held
          /\ ev' = Ev(t, "sem_wait", ERR_OK)
          /\ UNCHANGED <<schedVars, pc, semaphore_lock, sem_initial, disciplined>>
     ELSE IF queue_count(sem.wait_q) >= sem.max_waiters
     THEN /\ panicked' = TRUE
          /\ ev' = Ev(t, "sem_wait", "PANIC")
          /\ UNCHANGED <<state, prio, delay, task_current, last_ready_hint, pc,
                         semVars>>
     ELSE \* _sched_block: enqueue, BLOCKED, _yield; the lock is never released
          /\ sem' = [sem EXCEPT !.wait_q = list_pushback(@, t)]
          /\ semaphore_lock' = 1
          /\ yield([state EXCEPT ![t] = TASK_BLOCKED])
          /\ Goto(t, "sem_blocked")
          /\ ev' = Ev(t, "sem_wait", "BLOCK")
          /\ UNCHANGED <<sem_initial, held, disciplined>>
  /\ UNCHANGED <<kcbConst, mtxVars>>
  /\ UNCHANGED otherVars

\* the waiter is switched in again: _yield, _sched_block and mo_sem_wait return
mo_sem_wait_return(t) ==
  /\ Running(t)
  /\ pc[t] = "sem_blocked"
  /\ Goto(t, "user")
  /\ held' = IF disciplined THEN [held EXCEPT ![t] = @ + 1] ELSE held
  /\ ev' = Ev(t, "sem_wait", ERR_OK)
  /\ UNCHANGED <<schedVars, kcbConst, semaphore_lock, sem, sem_initial,
                 disciplined, mtxVars>>
  /\ UNCHANGED otherVars

mo_sem_trywait(t) ==
  /\ InUser(t)
  /\ IF ~sem_is_valid(sem) THEN invalid_fail(t, "sem_trywait")
     ELSE IF semaphore_lock = 1 THEN Hang(t, "spin_sem_trywait", "sem_trywait")
     ELSE /\ IF sem_available(sem)
             THEN /\ sem' = [sem EXCEPT !.count = @ - 1]
                  /\ held' = IF disciplined THEN [held EXCEPT ![t] = @ + 1] ELSE held
                  /\ ev' = Ev(t, "sem_trywait", ERR_OK)
             ELSE /\ ev' = Ev(t, "sem_trywait", ERR_FAIL)
                  /\ UNCHANGED <<sem, held>>
          /\ UNCHANGED <<schedVars, pc, semaphore_lock, sem_initial, disciplined>>
  /\ UNCHANGED <<kcbConst, mtxVars>>
  /\ UNCHANGED otherVars

mo_sem_signal(t) ==
  /\ InUser(t)
  /\ IF ~sem_is_valid(sem) THEN invalid_panic(t, "sem_signal")
     ELSE IF semaphore_lock = 1 THEN Hang(t, "spin_sem_signal", "sem_signal")
     ELSE /\ IF queue_count(sem.wait_q) > 0
             THEN LET awakened_task == list_head(sem.wait_q) IN
                  /\ sem' = [sem EXCEPT !.wait_q = list_pop_rest(@)]
                  /\ IF state[awakened_task] = TASK_BLOCKED
                     THEN \* should_yield: mo_task_yield() after the unlock
                          /\ yield([state EXCEPT ![awakened_task] = TASK_READY])
                          /\ ev' = Ev(t, "sem_signal", "WAKE")
                     ELSE /\ panicked' = TRUE
                          /\ ev' = Ev(t, "sem_signal", "PANIC")
                          /\ UNCHANGED <<state, prio, delay, task_current,
                                         last_ready_hint>>
             ELSE /\ sem' = [sem EXCEPT !.count =
                                 IF @ < SEM_MAX_COUNT THEN @ + 1 ELSE @]
                  /\ ev' = Ev(t, "sem_signal", ERR_OK)
                  /\ UNCHANGED schedVars
          /\ disciplined' = (disciplined /\ held[t] > 0)
          /\ held' = IF disciplined /\ held[t] > 0
                     THEN [held EXCEPT ![t] = @ - 1]
                     ELSE [x \in Tasks |-> 0]
          /\ UNCHANGED <<pc, semaphore_lock, sem_initial>>
  /\ UNCHANGED <<kcbConst, mtxVars>>
  /\ UNCHANGED otherVars

(* ------------------------- mutex and condvar -------------------------- *)
\* The body of mo_mutex_lock run by t.  o names the API call it serves (the
\* call itself, or the re-acquire that ends mo_cond_wait / mo_cond_timedwait),
\* ok_r and busy_r what that call returns when the lock call returns ERR_OK or
\* ERR_TASK_BUSY, blockedpc where t sleeps inside mutex_block_atomic.
mutex_lock_body(t, o, spinpc, blockedpc, ok_r, busy_r) ==
  IF ~mutex_is_valid(mtx) THEN invalid_panic(t, o)
  ELSE IF mutex_lock = 1 THEN Hang(t, spinpc, o)
  ELSE IF mtx.owner_tid = t
  THEN \* non-recursive
       /\ Goto(t, "user")
       /\ ev' = Ev(t, o, busy_r)
       /\ UNCHANGED <<schedVars, mtxVars>>
  ELSE IF mtx.owner_tid = 0
  THEN \* fast path
       /\ mtx' = [mtx EXCEPT !.owner_tid = t]
       /\ owns' = owns \cup {t}
       /\ Goto(t, "user")
       /\ ev' = Ev(t, o, ok_r)
       /\ UNCHANGED <<schedVars, mutex_lock, cnd, deadline>>
  ELSE \* mutex_block_atomic: pushback, BLOCKED, _yield; the lock is never released
       /\ mtx' = [mtx EXCEPT !.waiters = list_pushback(@, t)]
       /\ mutex_lock' = 1
       /\ yield([state EXCEPT ![t] = TASK_BLOCKED])
       /\ Goto(t, blockedpc)
       /\ ev' = Ev(t, o, "BLOCK")
       /\ UNCHANGED <<cnd, owns, deadline>>

\* t is switched in again inside mutex_block_atomic: mo_mutex_lock returns ERR_OK
mutex_lock_wakeup(t, o, ok_r) ==
  /\ Goto(t, "user")
  /\ owns' = owns \cup {t}
  /\ ev' = Ev(t, o, ok_r)
  /\ UNCHANGED <<schedVars, kcbConst, semVars, mutex_lock, mtx, cnd, deadline>>

mo_mutex_lock(t) ==
  /\ InUser(t)
  /\ mutex_lock_body(t, "mutex_lock", "spin_mutex_lock", "lock_blocked",
                     ERR_OK, ERR_TASK_BUSY)
  /\ UNCHANGED <<kcbConst, semVars>>
  /\ UNCHANGED otherVars

mo_mutex_lock_return(t) ==
  /\ Running(t)
  /\ pc[t] = "lock_blocked"
  /\ mutex_lock_wakeup(t, "mutex_lock", ERR_OK)
  /\ UNCHANGED otherVars

\* the critical section of mo_mutex_trylock
mutex_trylock_body(t, o, spinpc) ==
  IF ~mutex_is_valid(mtx) THEN invalid_fail(t, o)
  ELSE IF mutex_lock = 1 THEN Hang(t, spinpc, o)
  ELSE /\ IF mtx.owner_tid = t
          THEN /\ ev' = Ev(t, o, ERR_TASK_BUSY)
               /\ UNCHANGED <<mtx, owns>>
          ELSE IF mtx.owner_tid = 0
          THEN /\ mtx' = [mtx EXCEPT !.owner_tid = t]
               /\ owns' = owns \cup {t}
               /\ ev' = Ev(t, o, ERR_OK)
          ELSE /\ ev' = Ev(t, o, ERR_TASK_BUSY)
               /\ UNCHANGED <<mtx, owns>>
       /\ UNCHANGED <<schedVars, pc, mutex_lock, cnd, deadline>>

mo_mutex_trylock(t) ==
  /\ InUser(t)
  /\ mutex_trylock_body(t, "mutex_trylock", "spin_mutex_trylock")
  /\ UNCHANGED <<kcbConst, semVars>>
  /\ UNCHANGED otherVars

\* mo_mutex_timedlock(m, n): a zero timeout is a trylock; otherwise the deadline
\* is computed first, with interrupts enabled.  The sum is a uint32_t; ticks
\* stays at most MaxTicks here, so it does not wrap.
mo_mutex_timedlock(t, n) ==
  /\ InUser(t)
  /\ IF ~mutex_is_valid(mtx) THEN invalid_fail(t, "mutex_timedlock")
     ELSE IF n = 0
     THEN mutex_trylock_body(t, "mutex_timedlock", "spin_mutex_timedlock")
     ELSE /\ deadline' = [deadline EXCEPT ![t] = add32(ticks, n)]
          /\ Goto(t, "tl_enter")
          /\ ev' = Ev(t, "mutex_timedlock", "none")
          /\ UNCHANGED <<schedVars, mutex_lock, mtx, cnd, owns>>
  /\ UNCHANGED <<kcbConst, semVars>>
  /\ UNCHANGED otherVars

\* the first critical section of mo_mutex_timedlock
mo_mutex_timedlock_enter(t) ==
  /\ Running(t)
  /\ pc[t] = "tl_enter"
  /\ IF mutex_lock = 1 THEN Hang(t, "spin_mutex_timedlock", "mutex_timedlock")
     ELSE IF mtx.owner_tid = t
     THEN /\ Goto(t, "user")
          /\ ev' = Ev(t, "mutex_timedlock", ERR_TASK_BUSY)
          /\ deadline' = [deadline EXCEPT ![t] = 0]
          /\ UNCHANGED <<schedVars, mutex_lock, mtx, cnd, owns>>
     ELSE IF mtx.owner_tid = 0
     THEN /\ mtx' = [mtx EXCEPT !.owner_tid = t]
          /\ owns' = owns \cup {t}
          /\ Goto(t, "user")
          /\ ev' = Ev(t, "mutex_timedlock", ERR_OK)
          /\ deadline' = [deadline EXCEPT ![t] = 0]
          /\ UNCHANGED <<schedVars, mutex_lock, cnd>>
     ELSE /\ mtx' = [mtx EXCEPT !.waiters = list_pushback(@, t)]
          /\ state' = [state EXCEPT ![t] = TASK_BLOCKED]
          /\ Goto(t, "tl_wait")
          /\ ev' = Ev(t, "mutex_timedlock", "ENQUEUE")
          /\ UNCHANGED <<prio, delay, task_current, last_ready_hint, panicked,
                         mutex_lock, cnd, owns, deadline>>
  /\ UNCHANGED <<kcbConst, semVars>>
  /\ UNCHANGED otherVars

\* while (self->state == TASK_BLOCKED && mo_ticks() < deadline) mo_task_yield();
mo_mutex_timedlock_wait(t) ==
  /\ Running(t)
  /\ pc[t] = "tl_wait"
  /\ IF state[t] = TASK_BLOCKED /\ u32_lt(ticks, deadline[t])
     THEN /\ yield(state)
          /\ ev' = Ev(t, "mutex_timedlock", "POLL")
          /\ UNCHANGED pc
     ELSE /\ Goto(t, "tl_final")
          /\ ev' = Ev(t, "mutex_timedlock", "none")
          /\ UNCHANGED schedVars
  /\ UNCHANGED <<kcbConst, semVars, mtxVars>>
  /\ UNCHANGED otherVars

\* the second critical section of mo_mutex_timedlock
mo_mutex_timedlock_final(t) ==
  /\ Running(t)
  /\ pc[t] = "tl_final"
  /\ IF mutex_lock = 1 THEN Hang(t, "spin_mutex_timedlock", "mutex_timedlock")
     ELSE /\ IF state[t] = TASK_BLOCKED
             THEN /\ mtx' = [mtx EXCEPT !.waiters = list_remove_data(@, t)]
                  /\ state' = [state EXCEPT ![t] = TASK_READY]
                  /\ ev' = Ev(t, "mutex_timedlock", ERR_TIMEOUT)
                  /\ UNCHANGED owns
             ELSE /\ owns' = owns \cup {t}
                  /\ ev' = Ev(t, "mutex_timedlock", ERR_OK)
                  /\ UNCHANGED <<mtx, state>>
          /\ Goto(t, "user")
          /\ deadline' = [deadline EXCEPT ![t] = 0]
          /\ UNCHANGED <<prio, delay, task_current, last_ready_hint, panicked,
                         mutex_lock, cnd>>
  /\ UNCHANGED <<kcbConst, semVars>>
  /\ UNCHANGED otherVars

\* The critical section of mo_mutex_unlock run by t: the value returned, the
\* mutex and the task states it leaves ("PANIC": the popped waiter was not
\* BLOCKED and panic() was called).
mutex_unlock_result(t) ==
  IF mtx.owner_tid # t
  THEN [r |-> ERR_NOT_OWNER, mtx |-> mtx, state |-> state]
  ELSE IF mtx.waiters = <<>>
  THEN [r |-> ERR_OK, mtx |-> [mtx EXCEPT !.owner_tid = 0], state |-> state]
  ELSE LET next_owner == list_head(mtx.waiters) IN
       IF state[next_owner] = TASK_BLOCKED
       THEN [r |-> ERR_OK,
             mtx |-> [mtx EXCEPT !.owner_tid = next_owner,
                                 !.waiters = list_pop_rest(@)],
             state |-> [state EXCEPT ![next_owner] = TASK_READY]]
       ELSE [r |-> "PANIC",
             mtx |-> [mtx EXCEPT !.waiters = list_pop_rest(@)],
             state |-> state]

mo_mutex_unlock(t) ==
  /\ InUser(t)
  /\ IF ~mutex_is_valid(mtx) THEN invalid_fail(t, "mutex_unlock")
     ELSE IF mutex_lock = 1 THEN Hang(t, "spin_mutex_unlock", "mutex_unlock")
     ELSE LET u == mutex_unlock_result(t) IN
          /\ mtx' = u.mtx
          /\ state' = u.state
          /\ panicked' = (u.r = "PANIC")
          /\ owns' = owns \ {t}
          /\ ev' = Ev(t, "mutex_unlock", u.r)
          /\ UNCHANGED <<prio, delay, task_current, last_ready_hint, pc,
                         mutex_lock, cnd, deadline>>
  /\ UNCHANGED <<kcbConst, semVars>>
  /\ UNCHANGED otherVars

\* mo_cond_wait up to the end of its critical section: the ownership check,
\* then pushback on the condvar's list and BLOCKED
mo_cond_wait(t) ==
  /\ InUser(t)
  /\ IF ~cond_is_valid(cnd) \/ ~mutex_is_valid(mtx)
     THEN invalid_panic(t, "cond_wait")
     ELSE IF mtx.owner_tid # t
     THEN /\ ev' = Ev(t, "cond_wait", ERR_NOT_OWNER)
          /\ UNCHANGED <<schedVars, pc, mtxVars>>
     ELSE IF mutex_lock = 1 THEN Hang(t, "spin_cond_wait", "cond_wait")
     ELSE /\ cnd' = [cnd EXCEPT !.waiters = list_pushback(@, t)]
          /\ state' = [state EXCEPT ![t] = TASK_BLOCKED]
          /\ Goto(t, "cw_unlock")
          /\ ev' = Ev(t, "cond_wait", "ENQUEUE")
          /\ UNCHANGED <<prio, delay, task_current, last_ready_hint, panicked,
                         mutex_lock, mtx, owns, deadline>>
  /\ UNCHANGED <<kcbConst, semVars>>
  /\ UNCHANGED otherVars

\* The mo_mutex_unlock(m) inside mo_cond_wait / mo_cond_timedwait; when it
\* fails the caller takes itself off the condvar's list and returns its result.
cond_unlock_step(t, o, spinpc, nextpc) ==
  IF mutex_lock = 1 THEN Hang(t, spinpc, o)
  ELSE LET u == mutex_unlock_result(t) IN
       /\ mtx' = u.mtx
       /\ panicked' = (u.r = "PANIC")
       /\ owns' = owns \ {t}
       /\ IF u.r = ERR_NOT_OWNER
          THEN /\ cnd' = [cnd EXCEPT !.waiters = list_remove_data(@, t)]
               /\ state' = [u.state EXCEPT ![t] = TASK_READY]
               /\ Goto(t, "user")
               /\ ev' = Ev(t, o, ERR_NOT_OWNER)
          ELSE /\ state' = u.state
               /\ cnd' = cnd
               /\ pc' = IF u.r = "PANIC" THEN pc ELSE [pc EXCEPT ![t] = nextpc]
               /\ ev' = Ev(t, o, IF u.r = "PANIC" THEN "PANIC" ELSE "UNLOCKED")
       /\ deadline' = IF u.r = ERR_NOT_OWNER THEN [deadline EXCEPT ![t] = 0]
                      ELSE deadline
       /\ UNCHANGED <<prio, delay, task_current, last_ready_hint, mutex_lock>>

mo_cond_wait_unlock(t) ==
  /\ Running(t)
  /\ pc[t] = "cw_unlock"
  /\ cond_unlock_step(t, "cond_wait", "spin_cond_wait", "cw_yield")
  /\ UNCHANGED <<kcbConst, semVars>>
  /\ UNCHANGED otherVars

\* the mo_task_yield() of mo_cond_wait
mo_cond_wait_yield(t) ==
  /\ Running(t)
  /\ pc[t] = "cw_yield"
  /\ yield(state)
  /\ Goto(t, "cw_lock")
  /\ ev' = Ev(t, "cond_wait", "YIELD")
  /\ UNCHANGED <<kcbConst, semVars, mtxVars>>
  /\ UNCHANGED otherVars

\* return mo_mutex_lock(m);
mo_cond_wait_lock(t) ==
  /\ Running(t)
  /\ pc[t] = "cw_lock"
  /\ mutex_lock_body(t, "cond_wait", "spin_cond_wait", "cw_lock_blocked",
                     ERR_OK, ERR_TASK_BUSY)
  /\ UNCHANGED <<kcbConst, semVars>>
  /\ UNCHANGED otherVars

mo_cond_wait_return(t) ==
  /\ Running(t)
  /\ pc[t] = "cw_lock_blocked"
  /\ mutex_lock_wakeup(t, "cond_wait", ERR_OK)
  /\ UNCHANGED otherVars

\* mo_cond_timedwait up to the computation of the deadline
mo_cond_timedwait(t, n) ==
  /\ InUser(t)
  /\ IF ~cond_is_valid(cnd) \/ ~mutex_is_valid(mtx)
     THEN invalid_panic(t, "cond_timedwait")
     ELSE /\ IF mtx.owner_tid # t
             THEN /\ ev' = Ev(t, "cond_timedwait", ERR_NOT_OWNER)
                  /\ UNCHANGED <<pc, deadline>>
             ELSE IF n = 0
             THEN /\ ev' = Ev(t, "cond_timedwait", ERR_TIMEOUT)
                  /\ UNCHANGED <<pc, deadline>>
             ELSE /\ deadline' = [deadline EXCEPT ![t] = add32(ticks, n)]
                  /\ Goto(t, "ctw_enter")
                  /\ ev' = Ev(t, "cond_timedwait", "none")
          /\ UNCHANGED <<schedVars, semVars, mutex_lock, mtx, cnd, owns>>
  /\ UNCHANGED kcbConst
  /\ UNCHANGED otherVars

mo_cond_timedwait_enter(t) ==
  /\ Running(t)
  /\ pc[t] = "ctw_enter"
  /\ IF mutex_lock = 1 THEN Hang(t, "spin_cond_timedwait", "cond_timedwait")
     ELSE /\ cnd' = [cnd EXCEPT !.waiters = list_pushback(@, t)]
          /\ state' = [state EXCEPT ![t] = TASK_BLOCKED]
          /\ Goto(t, "ctw_unlock")
          /\ ev' = Ev(t, "cond_timedwait", "ENQUEUE")
          /\ UNCHANGED <<prio, delay, task_current, last_ready_hint, panicked,
                         mutex_lock, mtx, owns, deadline>>
  /\ UNCHANGED <<kcbConst, semVars>>
  /\ UNCHANGED otherVars

mo_cond_timedwait_unlock(t) ==
  /\ Running(t)
  /\ pc[t] = "ctw_unlock"
  /\ cond_unlock_step(t, "cond_timedwait", "spin_cond_timedwait", "ctw_wait")
  /\ UNCHANGED <<kcbConst, semVars>>
  /\ UNCHANGED otherVars

\* while (self->state == TASK_BLOCKED && mo_ticks() < deadline) mo_task_yield();
mo_cond_timedwait_wait(t) ==
  /\ Running(t)
  /\ pc[t] = "ctw_wait"
  /\ IF state[t] = TASK_BLOCKED /\ u32_lt(ticks, deadline[t])
     THEN /\ yield(state)
          /\ ev' = Ev(t, "cond_timedwait", "POLL")
          /\ UNCHANGED pc
     ELSE /\ Goto(t, "ctw_final")
          /\ ev' = Ev(t, "cond_timedwait", "none")
          /\ UNCHANGED schedVars
  /\ UNCHANGED <<kcbConst, semVars, mtxVars>>
  /\ UNCHANGED otherVars

\* the critical section that sets wait_status
mo_cond_timedwait_final(t) ==
  /\ Running(t)
  /\ pc[t] = "ctw_final"
  /\ IF mutex_lock = 1 THEN Hang(t, "spin_cond_timedwait", "cond_timedwait")
     ELSE /\ IF state[t] = TASK_BLOCKED
             THEN /\ cnd' = [cnd EXCEPT !.waiters = list_remove_data(@, t)]
                  /\ state' = [state EXCEPT ![t] = TASK_READY]
                  /\ Goto(t, "ctw_lock_timeout")
                  /\ ev' = Ev(t, "cond_timedwait", "TIMED_OUT")
             ELSE /\ Goto(t, "ctw_lock_ok")
                  /\ ev' = Ev(t, "cond_timedwait", "SIGNALLED")
                  /\ UNCHANGED <<cnd, state>>
          /\ deadline' = [deadline EXCEPT ![t] = 0]
          /\ UNCHANGED <<prio, delay, task_current, last_ready_hint, panicked,
                         mutex_lock, mtx, owns>>
  /\ UNCHANGED <<kcbConst, semVars>>
  /\ UNCHANGED otherVars

\* lock_result = mo_mutex_lock(m); return timed out ? ERR_TIMEOUT : lock_result
mo_cond_timedwait_lock(t) ==
  /\ Running(t)
  /\ pc[t] \in {"ctw_lock_timeout", "ctw_lock_ok"}
  /\ IF pc[t] = "ctw_lock_timeout"
     THEN mutex_lock_body(t, "cond_timedwait", "spin_cond_timedwait",
                          "ctw_blocked_timeout", ERR_TIMEOUT, ERR_TIMEOUT)
     ELSE mutex_lock_body(t, "cond_timedwait", "spin_cond_timedwait",
                          "ctw_blocked_ok", ERR_OK, ERR_TASK_BUSY)
  /\ UNCHANGED <<kcbConst, semVars>>
  /\ UNCHANGED otherVars

mo_cond_timedwait_return(t) ==
  /\ Running(t)
  /\ pc[t] \in {"ctw_blocked_timeout", "ctw_blocked_ok"}
  /\ mutex_lock_wakeup(t, "cond_timedwait",
                       IF pc[t] = "ctw_blocked_timeout" THEN ERR_TIMEOUT ELSE ERR_OK)
  /\ UNCHANGED otherVars

mo_cond_signal(t) ==
  /\ InUser(t)
  /\ IF ~cond_is_valid(cnd) THEN invalid_fail(t, "cond_signal")
     ELSE IF mutex_lock = 1 THEN Hang(t, "spin_cond_signal", "cond_signal")
     ELSE /\ IF cnd.waiters = <<>>
             THEN /\ ev' = Ev(t, "cond_signal", ERR_OK)
                  /\ UNCHANGED <<cnd, state, panicked>>
             ELSE LET waiter == list_head(cnd.waiters) IN
                  /\ cnd' = [cnd EXCEPT !.waiters = list_pop_rest(@)]
                  /\ IF state[waiter] = TASK_BLOCKED
                     THEN /\ state' = [state EXCEPT ![waiter] = TASK_READY]
                          /\ ev' = Ev(t, "cond_signal", ERR_OK)
                          /\ UNCHANGED panicked
                     ELSE /\ panicked' = TRUE
                          /\ ev' = Ev(t, "cond_signal", "PANIC")
                          /\ UNCHANGED state
          /\ UNCHANGED <<prio, delay, task_current, last_ready_hint, pc,
                         mutex_lock, mtx, owns, deadline>>
  /\ UNCHANGED <<kcbConst, semVars>>
  /\ UNCHANGED otherVars

\* the waiters popped by mo_cond_broadcast's loop: all of them, or those up to
\* and including the first one that is not BLOCKED, where it panics
broadcast_stop(l) ==
  IF \A i \in 1..Len(l) : state[l[i]] = TASK_BLOCKED THEN 0
  ELSE CHOOSE i \in 1..Len(l) :
         /\ state[l[i]] # TASK_BLOCKED
         /\ \A j \in 1..(i - 1) : state[l[j]] = TASK_BLOCKED

mo_cond_broadcast(t) ==
  /\ InUser(t)
  /\ IF ~cond_is_valid(cnd) THEN invalid_fail(t, "cond_broadcast")
     ELSE IF mutex_lock = 1 THEN Hang(t, "spin_cond_broadcast", "cond_broadcast")
     ELSE LET l == cnd.waiters
              k == broadcast_stop(l)
              woken == IF k = 0 THEN {l[i] : i \in 1..Len(l)}
                       ELSE {l[i] : i \in 1..(k - 1)}
          IN /\ cnd' = [cnd EXCEPT !.waiters =
                          IF k = 0 THEN <<>> ELSE SubSeq(l, k + 1, Len(l))]
             /\ state' = [x \in Tasks |-> IF x \in woken THEN TASK_READY ELSE state[x]]
             /\ panicked' = (k # 0)
             /\ ev' = Ev(t, "cond_broadcast", IF k = 0 THEN ERR_OK ELSE "PANIC")
             /\ UNCHANGED <<prio, delay, task_current, last_ready_hint, pc,
                            mutex_lock, mtx, owns, deadline>>
  /\ UNCHANGED <<kcbConst, semVars>>
  /\ UNCHANGED otherVars

(* ------------------------- destroying objects ------------------------- *)
mo_sem_destroy(t) ==
  /\ InUser(t)
  /\ IF ~sem_is_valid(sem)
     THEN /\ ev' = Ev(t, "sem_destroy", ERR_FAIL)
          /\ UNCHANGED <<schedVars, pc, semVars>>
     ELSE IF semaphore_lock = 1 THEN Hang(t, "spin_sem_destroy", "sem_destroy")
     ELSE IF queue_count(sem.wait_q) > 0
     THEN /\ ev' = Ev(t, "sem_destroy", ERR_TASK_BUSY)
          /\ UNCHANGED <<schedVars, pc, semVars>>
     ELSE /\ sem' = [sem EXCEPT !.magic = 0]
          /\ ev' = Ev(t, "sem_destroy", ERR_OK)
          /\ UNCHANGED <<schedVars, pc, semaphore_lock, sem_initial, held,
                         disciplined>>
  /\ UNCHANGED <<kcbConst, mtxVars, otherVars>>

mo_mutex_destroy(t) ==
  /\ InUser(t)
  /\ IF ~mutex_is_valid(mtx)
     THEN /\ ev' = Ev(t, "mutex_destroy", ERR_FAIL)
          /\ UNCHANGED <<schedVars, pc, mtxVars>>
     ELSE IF mutex_lock = 1 THEN Hang(t, "spin_mutex_destroy", "mutex_destroy")
     ELSE IF mtx.waiters # <<>> \/ mtx.owner_tid # 0
     THEN /\ ev' = Ev(t, "mutex_destroy", ERR_TASK_BUSY)
          /\ UNCHANGED <<schedVars, pc, mtxVars>>
     ELSE /\ mtx' = [mtx EXCEPT !.magic = 0, !.owner_tid = 0]
          /\ ev' = Ev(t, "mutex_destroy", ERR_OK)
          /\ UNCHANGED <<schedVars, pc, mutex_lock, cnd, owns, deadline>>
  /\ UNCHANGED <<kcbConst, semVars, otherVars>>

mo_cond_destroy(t) ==
  /\ InUser(t)
  /\ IF ~cond_is_valid(cnd)
     THEN /\ ev' = Ev(t, "cond_destroy", ERR_FAIL)
          /\ UNCHANGED <<schedVars, pc, mtxVars>>
     ELSE IF mutex_lock = 1 THEN Hang(t, "spin_cond_destroy", "cond_destroy")
     ELSE IF cnd.waiters # <<>>
     THEN /\ ev' = Ev(t, "cond_destroy", ERR_TASK_BUSY)
          /\ UNCHANGED <<schedVars, pc, mtxVars>>
     ELSE /\ cnd' = [cnd EXCEPT !.magic = 0]
          /\ ev' = Ev(t, "cond_destroy", ERR_OK)
          /\ UNCHANGED <<schedVars, pc, mutex_lock, mtx, owns, deadline>>
  /\ UNCHANGED <<kcbConst, semVars, otherVars>>

(* --------------------------- message queue ---------------------------- *)
\* Every message-queue call takes queue_lock and releases it before it
\* returns, with interrupts off in between, so each call is one step and the
\* lock word is always 0 between steps.
Msgs == 1..NMsgs

\* queue_enqueue: 0 when the message was stored, -1 when the queue is full
mo_mq_enqueue(t, msg) ==
  /\ InUser(t)
  /\ IF queue_count(mq.q) >= mq.max_items
     THEN /\ ev' = Ev(t, "mq_enqueue", -1)
          /\ UNCHANGED mq
     ELSE /\ mq' = [mq EXCEPT !.q = Append(@, msg)]
          /\ ev' = Ev(t, "mq_enqueue", 0)
  /\ UNCHANGED <<schedVars, pc, kcbConst, semVars, mtxVars, listVars, restVars>>

\* queue_dequeue: the oldest message, or NULL (0) when the queue is empty
mo_mq_dequeue(t) ==
  /\ InUser(t)
  /\ IF queue_count(mq.q) = 0
     THEN /\ ev' = Ev(t, "mq_dequeue", 0)
          /\ UNCHANGED mq
     ELSE /\ mq' = [mq EXCEPT !.q = Tail(@)]
          /\ ev' = Ev(t, "mq_dequeue", Head(mq.q))
  /\ UNCHANGED <<schedVars, pc, kcbConst, semVars, mtxVars, listVars, restVars>>

mo_mq_destroy(t) ==
  /\ InUser(t)
  /\ IF queue_count(mq.q) # 0
     THEN /\ ev' = Ev(t, "mq_destroy", ERR_MQ_NOTEMPTY)
          /\ UNCHANGED mq
     ELSE /\ mq' = [mq EXCEPT !.freed = TRUE]
          /\ ev' = Ev(t, "mq_destroy", ERR_OK)
  /\ UNCHANGED <<schedVars, pc, kcbConst, semVars, mtxVars, listVars, restVars>>

(* --------------------------- timer calls ------------------------------ *)
mo_timer_start(t, id, mode) ==
  /\ InUser(t)
  /\ LET r == timer_start(timers, timer_list, id, mode, ticks)
         k == timer_find_by_id_fast(id)
     IN /\ timers' = r.timers
        /\ timer_list' = r.list
        /\ timer_age' = IF r.r = ERR_OK THEN [timer_age EXCEPT ![k] = 0]
                        ELSE timer_age
        /\ timer_fires' = IF r.r = ERR_OK THEN [timer_fires EXCEPT ![k] = 0]
                          ELSE timer_fires
        /\ ev' = Ev(t, "timer_start", r.r)
  /\ UNCHANGED <<schedVars, pc, kcbConst, semVars, mtxVars, mq, listVars,
                 delay_until, runs, rt_prio, pipeVars>>

mo_timer_cancel(t, id) ==
  /\ InUser(t)
  /\ LET r == timer_cancel(timers, timer_list, id)
     IN /\ timers' = r.timers
        /\ timer_list' = r.list
        /\ ev' = Ev(t, "timer_cancel", r.r)
  /\ UNCHANGED <<timer_age, timer_fires>>
  /\ UNCHANGED <<schedVars, pc, kcbConst, semVars, mtxVars, mq, listVars,
                 delay_until, runs, rt_prio, pipeVars>>

\* mo_timer_destroy: the timer leaves all_timers_list and is freed
mo_timer_destroy(t, id) ==
  /\ InUser(t)
  /\ IF timer_find_by_id_fast(id) = 0
     THEN /\ ev' = Ev(t, "timer_destroy", ERR_FAIL)
          /\ UNCHANGED <<timers, timer_list>>
     ELSE LET k == timer_find_by_id_fast(id) IN
          /\ timer_list' = IF timers[k].mode # TIMER_DISABLED
                           THEN timer_remove_item_by_data(timer_list, k)
                           ELSE timer_list
          /\ timers' = [timers EXCEPT ![k].live = FALSE, ![k].stopped = TRUE]
          /\ ev' = Ev(t, "timer_destroy", ERR_OK)
  /\ UNCHANGED <<timer_age, timer_fires>>
  /\ UNCHANGED <<schedVars, pc, kcbConst, semVars, mtxVars, mq, listVars,
                 delay_until, runs, rt_prio, pipeVars>>

(* -------------------------------- pipe -------------------------------- *)
\* Every critical section of the pipe module releases pipe_lock before it
\* ends, so the lock word is 0 between steps.  The bytes written are numbered
\* in the order in which the pipe accepts them: byte k is the k-th byte put.
Stamps(n) == [k \in 1..n |-> pipe_puts + k]

mo_pipe_flush(t) ==
  /\ InUser(t)
  /\ pipe' = [pipe EXCEPT !.head = 0, !.tail = 0, !.used = 0]
  /\ ev' = Ev(t, "pipe_flush", "none")
  /\ UNCHANGED <<schedVars, pc, kcbConst, semVars, mtxVars, mq, listVars,
                 delay_until, runs, rt_prio, timerVars, pio, pipe_puts, pipe_out>>

mo_pipe_nbread(t, len) ==
  /\ InUser(t)
  /\ Len(pipe_out) + len <= MaxBytes + 1
  /\ IF len = 0
     THEN /\ ev' = Ev(t, "pipe_nbread", PIPE_ERR_FAIL)
          /\ UNCHANGED <<pipe, pipe_out>>
     ELSE LET r == nbread_loop(pipe, len, <<>>) IN
          /\ pipe' = r.pipe
          /\ pipe_out' = pipe_out \o r.out
          /\ ev' = Ev(t, "pipe_nbread", Len(r.out))
  /\ UNCHANGED <<schedVars, pc, kcbConst, semVars, mtxVars, mq, listVars,
                 delay_until, runs, rt_prio, timerVars, pio, pipe_puts>>

mo_pipe_nbwrite(t, len) ==
  /\ InUser(t)
  /\ pipe_puts + len <= MaxBytes
  /\ IF len = 0
     THEN /\ ev' = Ev(t, "pipe_nbwrite", PIPE_ERR_FAIL)
          /\ UNCHANGED <<pipe, pipe_puts>>
     ELSE LET r == nbwrite_loop(pipe, Stamps(len), 0) IN
          /\ pipe' = r.pipe
          /\ pipe_puts' = pipe_puts + r.i
          /\ ev' = Ev(t, "pipe_nbwrite", r.i)
  /\ UNCHANGED <<schedVars, pc, kcbConst, semVars, mtxVars, mq, listVars,
                 delay_until, runs, rt_prio, timerVars, pio, pipe_out>>

\* mo_pipe_read / mo_pipe_write up to the first pipe_wait_until_...
mo_pipe_read(t, len) ==
  /\ InUser(t)
  /\ Len(pipe_out) + len <= MaxBytes + 1
  /\ IF len = 0
     THEN /\ ev' = Ev(t, "pipe_read", PIPE_ERR_FAIL)
          /\ UNCHANGED <<pc, pio>>
     ELSE /\ pio' = [pio EXCEPT ![t] = [i |-> 0, len |-> len, ticks |-> 0]]
          /\ Goto(t, "rd_wait")
          /\ ev' = Ev(t, "pipe_read_step", "CALL")
  /\ UNCHANGED <<schedVars, kcbConst, semVars, mtxVars, mq, listVars,
                 delay_until, runs, rt_prio, timerVars, pipe, pipe_puts, pipe_out>>

mo_pipe_write(t, len) ==
  /\ InUser(t)
  /\ pipe_puts + len <= MaxBytes
  /\ IF len = 0
     THEN /\ ev' = Ev(t, "pipe_write", PIPE_ERR_FAIL)
          /\ UNCHANGED <<pc, pio>>
     ELSE /\ pio' = [pio EXCEPT ![t] = [i |-> 0, len |-> len, ticks |-> 0]]
          /\ Goto(t, "wr_wait")
          /\ ev' = Ev(t, "pipe_write_step", "CALL")
  /\ UNCHANGED <<schedVars, kcbConst, semVars, mtxVars, mq, listVars,
                 delay_until, runs, rt_prio, timerVars, pipe, pipe_puts, pipe_out>>

\* one pass of the loop of pipe_wait_until_readable: return when the pipe is
\* not empty, otherwise call mo_task_wfi
pipe_wait_until_readable(t) ==
  /\ Running(t)
  /\ pc[t] = "rd_wait"
  /\ Goto(t, IF ~pipe_is_empty(pipe) THEN "rd_get" ELSE "rd_wfi_enter")
  /\ ev' = Ev(t, "pipe_read_step",
            IF ~pipe_is_empty(pipe) THEN "READABLE" ELSE "WAIT")
  /\ UNCHANGED <<schedVars, kcbConst, semVars, mtxVars, otherVars>>

pipe_wait_until_writable(t) ==
  /\ Running(t)
  /\ pc[t] = "wr_wait"
  /\ Goto(t, IF ~pipe_is_full(pipe) THEN "wr_put" ELSE "wr_wfi_enter")
  /\ ev' = Ev(t, "pipe_write_step",
            IF ~pipe_is_full(pipe) THEN "WRITABLE" ELSE "WAIT")
  /\ UNCHANGED <<schedVars, kcbConst, semVars, mtxVars, otherVars>>

\* mo_task_wfi: it returns at once in cooperative mode, otherwise it reads
\* kcb->ticks and waits for it to change
WfiBack(l) == IF l \in {"rd_wfi_enter", "rd_wfi"} THEN "rd_wait" ELSE "wr_wait"
WfiWait(l) == IF l = "rd_wfi_enter" THEN "rd_wfi" ELSE "wr_wfi"

mo_task_wfi(t) ==
  /\ Running(t)
  /\ pc[t] \in {"rd_wfi_enter", "wr_wfi_enter"}
  /\ IF ~preemptive
     THEN /\ Goto(t, WfiBack(pc[t]))
          /\ UNCHANGED pio
     ELSE /\ Goto(t, WfiWait(pc[t]))
          /\ pio' = [pio EXCEPT ![t].ticks = ticks]
  /\ ev' = Ev(t, "wfi", "none")
  /\ UNCHANGED <<schedVars, kcbConst, semVars, mtxVars, mq, listVars,
                 delay_until, runs, rt_prio, timerVars, pipe, pipe_puts, pipe_out>>

\* while (current_ticks == kcb->ticks) is left once a tick has come
mo_task_wfi_return(t) ==
  /\ Running(t)
  /\ pc[t] \in {"rd_wfi", "wr_wfi"}
  /\ pio[t].ticks # ticks
  /\ Goto(t, WfiBack(pc[t]))
  /\ ev' = Ev(t, "wfi", "RETURN")
  /\ UNCHANGED <<schedVars, kcbConst, semVars, mtxVars, otherVars>>

\* dst[i++] = pipe_get_byte(p) and the loop test of mo_pipe_read
mo_pipe_read_get(t) ==
  /\ Running(t)
  /\ pc[t] = "rd_get"
  /\ pipe' = pipe_get_byte(pipe)
  /\ pipe_out' = Append(pipe_out, pipe_get_val(pipe))
  /\ pio' = [pio EXCEPT ![t].i = @ + 1]
  /\ IF pio[t].i + 1 < pio[t].len
     THEN /\ Goto(t, "rd_wait")
          /\ ev' = Ev(t, "pipe_read_step", "GET")
     ELSE /\ Goto(t, "user")
          /\ ev' = Ev(t, "pipe_read", pio[t].i + 1)
  /\ UNCHANGED <<schedVars, kcbConst, semVars, mtxVars, mq, listVars,
                 delay_until, runs, rt_prio, timerVars, pipe_puts>>

\* pipe_put_byte(p, src[i++]) and the loop test of mo_pipe_write
mo_pipe_write_put(t) ==
  /\ Running(t)
  /\ pc[t] = "wr_put"
  /\ pipe' = pipe_put_byte(pipe, pipe_puts + 1)
  /\ pipe_puts' = pipe_puts + 1
  /\ pio' = [pio EXCEPT ![t].i = @ + 1]
  /\ IF pio[t].i + 1 < pio[t].len
     THEN /\ Goto(t, "wr_wait")
          /\ ev' = Ev(t, "pipe_write_step", "PUT")
     ELSE /\ Goto(t, "user")
          /\ ev' = Ev(t, "pipe_write", pio[t].i + 1)
  /\ UNCHANGED <<schedVars, kcbConst, semVars, mtxVars, mq, listVars,
                 delay_until, runs, rt_prio, timerVars, pipe_out>>

\* while (lock->lock) cpu_relax(): with interrupts off nobody can release it
spin(t) ==
  /\ ~panicked
  /\ task_current = t
  /\ pc[t] \in SpinPcs
  /\ UNCHANGED vars

SchedNext ==
  \/ dispatcher
  \/ \E t \in AppTasks : mo_task_yield(t)
  \/ \E t \in AppTasks : spin(t)

SuspendNext ==
  \/ \E t \in AppTasks : \E id \in AppTasks : mo_task_suspend(t, id)
  \/ \E t \in AppTasks : mo_task_suspend_yield(t)
  \/ \E t \in AppTasks : \E id \in AppTasks : mo_task_resume(t, id)

TaskNext == SchedNext \/ SuspendNext

SemNext ==
  \/ \E t \in AppTasks : mo_sem_wait(t)
  \/ \E t \in AppTasks : mo_sem_wait_return(t)
  \/ \E t \in AppTasks : mo_sem_trywait(t)
  \/ \E t \in AppTasks : mo_sem_signal(t)

LockNext ==
  \/ \E t \in AppTasks : mo_mutex_lock(t)
  \/ \E t \in AppTasks : mo_mutex_lock_return(t)
  \/ \E t \in AppTasks : mo_mutex_trylock(t)
  \/ \E t \in AppTasks : mo_mutex_unlock(t)

TimedLockNext ==
  \/ \E t \in AppTasks : \E n \in 0..MaxTimeout : mo_mutex_timedlock(t, n)
  \/ \E t \in AppTasks : mo_mutex_timedlock_enter(t)
  \/ \E t \in AppTasks : mo_mutex_timedlock_wait(t)
  \/ \E t \in AppTasks : mo_mutex_timedlock_final(t)

MutexNext == LockNext \/ TimedLockNext

CondWaitNext ==
  \/ \E t \in AppTasks : mo_cond_wait(t)
  \/ \E t \in AppTasks : mo_cond_wait_unlock(t)
  \/ \E t \in AppTasks : mo_cond_wait_yield(t)
  \/ \E t \in AppTasks : mo_cond_wait_lock(t)
  \/ \E t \in AppTasks : mo_cond_wait_return(t)

CondTimedWaitNext ==
  \/ \E t \in AppTasks : \E n \in 0..MaxTimeout : mo_cond_timedwait(t, n)
  \/ \E t \in AppTasks : mo_cond_timedwait_enter(t)
  \/ \E t \in AppTasks : mo_cond_timedwait_unlock(t)
  \/ \E t \in AppTasks : mo_cond_timedwait_wait(t)
  \/ \E t \in AppTasks : mo_cond_timedwait_final(t)
  \/ \E t \in AppTasks : mo_cond_timedwait_lock(t)
  \/ \E t \in AppTasks : mo_cond_timedwait_return(t)

CondSignalNext ==
  \/ \E t \in AppTasks : mo_cond_signal(t)
  \/ \E t \in AppTasks : mo_cond_broadcast(t)

CondNext == CondWaitNext \/ CondTimedWaitNext \/ CondSignalNext

\* tasks that use the semaphore
SpecSem == Init /\ [][TaskNext \/ SemNext]_vars

\* tasks that use the mutex; the semaphore stays as created, with no token
InitMutex == Init /\ sem_initial = 0

SpecMutex == InitMutex /\ [][TaskNext \/ MutexNext]_vars

\* tasks that use the mutex and wait on the condition variable
SpecCond == InitMutex /\ [][TaskNext \/ LockNext \/ CondWaitNext \/ CondSignalNext]_vars

\* tasks that use the mutex and wait on the condition variable with a timeout
SpecCondTimed ==
  InitMutex /\ [][TaskNext \/ LockNext \/ CondTimedWaitNext \/ CondSignalNext]_vars

\* The condition-variable round trip: task 1 takes the mutex and calls
\* mo_cond_wait; once it is inside that call task 2 locks the mutex, signals
\* and unlocks; then the round starts again.  Task 3 only yields.  The returns
\* from mutex_block_atomic are left out: no step of this scenario enables them.
RoundTripNext ==
  \/ dispatcher
  \/ \E t \in AppTasks : mo_task_yield(t)
  \/ \E t \in AppTasks : spin(t)
  \/ /\ mtx.owner_tid = 0 /\ pc[2] = "user" /\ ~InList(cnd.waiters, 1)
     /\ mo_mutex_lock(1)
  \/ /\ 1 \in owns /\ pc[2] = "user" /\ 2 \notin owns
     /\ mo_cond_wait(1)
  \/ mo_cond_wait_unlock(1)
  \/ mo_cond_wait_yield(1)
  \/ mo_cond_wait_lock(1)
  \/ /\ pc[1] # "user" /\ 2 \notin owns /\ InList(cnd.waiters, 1)
     /\ mo_mutex_lock(2)
  \/ /\ 2 \in owns /\ InList(cnd.waiters, 1)
     /\ mo_cond_signal(2)
  \/ /\ 2 \in owns /\ ~InList(cnd.waiters, 1)
     /\ mo_mutex_unlock(2)

SpecRoundTrip == InitMutex /\ [][RoundTripNext]_vars

DelayNext ==
  \/ \E t \in AppTasks : \E n \in 0..MaxDelay : mo_task_delay(t, n)
  \/ \E t \in AppTasks : mo_task_delay_yield(t)
  \/ \E t \in AppTasks : mo_task_delay_return(t)

\* tasks that yield, sleep, suspend and resume each other, under the tick
SwitchNext ==
  \/ dispatcher
  \/ \E t \in AppTasks : mo_task_yield(t)

SpecTask == Init /\ [][SwitchNext \/ SuspendNext \/ DelayNext]_vars

SemWaitNext ==
  \/ \E t \in AppTasks : mo_sem_wait(t)
  \/ \E t \in AppTasks : mo_sem_wait_return(t)

\* tasks that sleep and wait on the semaphore, created with no token
SpecSemDelay == InitMutex /\ [][TaskNext \/ DelayNext \/ SemWaitNext]_vars

ListNext ==
  \/ \E t \in Tasks : mo_task_spawn(t)
  \/ \E t \in Tasks : mo_task_spawn_ready(t)
  \/ \E t \in Tasks : \E id \in CancelIds : mo_task_cancel(t, id)
  \/ dispatcher

\* the first task is launched after a boot, or after enough earlier spawns
\* and cancels to bring next_tid close to the end of its range
InitList == \E s \in TidStart : InitWith(s) /\ preemptive /\ sem_initial = 0

SpecList == InitList /\ [][ListNext]_vars

\* The application works with one object after the other: the semaphore until
\* mo_sem_destroy has returned ERR_OK, then the mutex and the condition
\* variable until both are destroyed, then the message queue.  It makes no
\* call on an object whose destroy call has returned ERR_OK.  No task is
\* suspended or resumed here, so a task blocked in the slow path of
\* mo_sem_wait or mo_mutex_lock is never switched in again and the steps that
\* return from those slow paths do not occur.
SemUsers == IF sem_is_valid(sem) THEN AppTasks ELSE {}
MutexUsers == IF ~sem_is_valid(sem) /\ mutex_is_valid(mtx) THEN AppTasks ELSE {}
CondUsers == IF ~sem_is_valid(sem) /\ cond_is_valid(cnd) THEN AppTasks ELSE {}
CondWaiters == MutexUsers \cap CondUsers
MqUsers ==
  IF ~sem_is_valid(sem) /\ ~mutex_is_valid(mtx) /\ ~cond_is_valid(cnd) /\ ~mq.freed
  THEN AppTasks ELSE {}

DestroyNext ==
  \/ \E t \in SemUsers : mo_sem_wait(t)
  \/ \E t \in SemUsers : mo_sem_signal(t)
  \/ \E t \in SemUsers : mo_sem_destroy(t)
  \/ \E t \in MutexUsers : mo_mutex_trylock(t)
  \/ \E t \in MutexUsers : \E n \in 1..MaxTimeout : mo_mutex_timedlock(t, n)
  \/ \E t \in MutexUsers : mo_mutex_timedlock_enter(t)
  \/ \E t \in MutexUsers : mo_mutex_timedlock_wait(t)
  \/ \E t \in MutexUsers : mo_mutex_timedlock_final(t)
  \/ \E t \in MutexUsers : mo_mutex_unlock(t)
  \/ \E t \in MutexUsers : mo_mutex_destroy(t)
  \/ \E t \in CondWaiters : mo_cond_wait(t)
  \/ \E t \in CondWaiters : mo_cond_wait_unlock(t)
  \/ \E t \in CondWaiters : mo_cond_wait_yield(t)
  \/ \E t \in CondWaiters : mo_cond_wait_lock(t)
  \/ \E t \in CondWaiters : mo_cond_signal(t)
  \/ \E t \in CondUsers : mo_cond_destroy(t)
  \/ \E t \in MqUsers : \E msg \in Msgs : mo_mq_enqueue(t, msg)
  \/ \E t \in MqUsers : mo_mq_dequeue(t)
  \/ \E t \in MqUsers : mo_mq_destroy(t)

SpecDestroy == Init /\ [][SchedNext \/ DestroyNext]_vars

Next == TaskNext \/ SemNext \/ MutexNext \/ CondNext

Spec == Init /\ [][Next]_vars

(* ------------------------------ properties ---------------------------- *)
\* t is between a lock call that returned ERR_OK and its unlock, or has been
\* made the owner and is still inside the call that will return ERR_OK
InRegion(t) == t \in owns \/ (mtx.owner_tid = t /\ pc[t] # "user")

\* C1: at most one task is between a lock call that returned ERR_OK and its
\* matching mo_mutex_unlock, and owner_tid is 0 exactly when no task is there.
C1_MutualExclusion ==
  /\ Cardinality({t \in Tasks : InRegion(t)}) <= 1
  /\ (mtx.owner_tid = 0) <=> (\A t \in Tasks : ~InRegion(t))

\* C2: while every task signals only after a wait of its own that returned and
\* count is below SEM_MAX_COUNT, count plus the number of waits that returned
\* and are not yet signalled equals the initial count.
C2_TokenConservation ==
  (disciplined /\ sem.count < SEM_MAX_COUNT)
    => sem.count + SumHeld(held) = sem_initial

\* C3: an unblocking operation on a semaphore with waiters removes the oldest
\* waiter from the queue and makes it ready, leaving the others in their order.
C3_FifoWake ==
  [][\A t \in AppTasks :
       (mo_sem_signal(t) /\ sem.wait_q # <<>>)
         => /\ sem'.wait_q = Tail(sem.wait_q)
            /\ state'[Head(sem.wait_q)] \in {TASK_READY, TASK_RUNNING}]_vars

\* C4: a mo_sem_signal called after a task started blocking in mo_sem_wait
\* completes: no task is stuck inside mo_sem_signal while a waiter is BLOCKED
\* on the wait queue.
C4_SignalCompletes ==
  \A t \in AppTasks :
    pc[t] = "spin_sem_signal"
      => ~(\E w \in AppTasks : InList(sem.wait_q, w) /\ state[w] = TASK_BLOCKED)

\* C5: count is never negative, and count > 0 implies the wait queue is empty.
C5_CountImpliesNoWaiters ==
  /\ sem.count >= 0
  /\ sem.count > 0 => queue_count(sem.wait_q) = 0

\* a semaphore created with a token has been drained and a waiter has queued
C5_Witness ==
  /\ sem_initial > 0
  /\ sem.count = 0
  /\ queue_count(sem.wait_q) > 0
  /\ ev.op = "sem_wait"

\* C6: mo_sem_trywait returns at once: ERR_OK with count decremented by one
\* iff count > 0 and the wait queue is empty, otherwise ERR_FAIL with count and
\* the wait queue unchanged.
C6_TrywaitNeverBlocks ==
  [][\A t \in AppTasks :
       mo_sem_trywait(t)
         => IF sem.count > 0 /\ sem.wait_q = <<>>
            THEN ev'.r = ERR_OK /\ sem' = [sem EXCEPT !.count = @ - 1]
            ELSE ev'.r = ERR_FAIL /\ sem' = sem]_vars

\* C7: mo_mutex_unlock by the owner hands the mutex to the head waiter, which
\* leaves the list and goes from BLOCKED to READY, or frees the mutex when no
\* task waits.
C7_HandOff ==
  [][\A t \in AppTasks :
       (mo_mutex_unlock(t) /\ mtx.owner_tid = t)
         => IF mtx.waiters = <<>>
            THEN mtx'.owner_tid = 0
            ELSE /\ mtx' = [mtx EXCEPT !.owner_tid = Head(mtx.waiters),
                                       !.waiters = Tail(mtx.waiters)]
                 /\ state[Head(mtx.waiters)] = TASK_BLOCKED
                 /\ state'[Head(mtx.waiters)] = TASK_READY]_vars

\* C8: mo_mutex_lock, mo_mutex_trylock and mo_mutex_timedlock called by the
\* owner return ERR_TASK_BUSY without blocking and change neither the mutex
\* nor the caller's state.
C8_NonRecursive ==
  [][\A t \in AppTasks :
       (/\ mtx.owner_tid = t
        /\ \/ mo_mutex_lock(t)
           \/ mo_mutex_trylock(t)
           \/ mo_mutex_timedlock(t, 0)
           \/ mo_mutex_timedlock_enter(t))
         => /\ ev'.r = ERR_TASK_BUSY
            /\ mtx' = mtx
            /\ state'[t] = state[t]
            /\ pc'[t] = "user"]_vars

\* C9: mo_mutex_unlock and mo_cond_wait called by a task that is not the owner
\* return ERR_NOT_OWNER and change neither the mutex, the condvar's list nor
\* the caller's state.
C9_OwnershipChecks ==
  [][\A t \in AppTasks :
       ((mo_mutex_unlock(t) \/ mo_cond_wait(t)) /\ mtx.owner_tid # t)
         => /\ ev'.r = ERR_NOT_OWNER
            /\ mtx' = mtx
            /\ cnd' = cnd
            /\ state'[t] = state[t]]_vars

\* C10: once the deadline of a task waiting in mo_mutex_timedlock has passed
\* with the mutex still held, a later mo_mutex_unlock by the owner neither
\* makes that task the owner nor changes its state.
C10_NoWakeAfterDeadline ==
  [][\A t \in AppTasks : \A w \in AppTasks :
       (/\ mo_mutex_unlock(t)
        /\ mtx.owner_tid = t
        /\ mutex_lock = 0
        /\ pc[w] = "tl_wait"
        /\ InList(mtx.waiters, w)
        /\ state[w] = TASK_BLOCKED
        /\ ticks >= deadline[w])
         => /\ mtx'.owner_tid # w
            /\ state'[w] = state[w]]_vars

\* C11: in the round trip every call of task 2 completes and task 1 can still
\* return from mo_cond_wait: no task spins on the module's lock, and tasks 1
\* and 2 are never both BLOCKED and switched out, with nobody left to wake them.
C11_RoundTrip ==
  /\ \A t \in {1, 2} : pc[t] \notin SpinPcs
  /\ ~(\A t \in {1, 2} : state[t] = TASK_BLOCKED /\ task_current # t)


\* C12: a call of mo_cond_signal pops the longest-waiting task of the wait list
\* and makes it READY (and changes nothing when nobody waits), a call of
\* mo_cond_broadcast makes every waiter READY and empties the wait list, and
\* neither changes the owner of the mutex.
C12_SignalBroadcast ==
  [][\A t \in AppTasks :
       /\ mo_cond_signal(t) =>
            /\ mtx'.owner_tid = mtx.owner_tid
            /\ IF cnd.waiters = <<>>
               THEN cnd' = cnd /\ state' = state
               ELSE /\ cnd'.waiters = Tail(cnd.waiters)
                    /\ state'[Head(cnd.waiters)] = TASK_READY
       /\ mo_cond_broadcast(t) =>
            /\ mtx'.owner_tid = mtx.owner_tid
            /\ cnd'.waiters = <<>>
            /\ \A i \in 1..Len(cnd.waiters) : state'[cnd.waiters[i]] = TASK_READY]_vars


\* C13: a destroy call on a busy object is refused and changes nothing:
\* mo_sem_destroy with waiters, mo_mutex_destroy on an owned mutex or one with
\* waiters and mo_cond_destroy with waiters return ERR_TASK_BUSY, mo_mq_destroy
\* on a non-empty queue returns ERR_MQ_NOTEMPTY, and the object is unchanged.
C13_DestroyBusy ==
  [][\A t \in AppTasks :
       /\ (mo_sem_destroy(t) /\ sem_is_valid(sem) /\ queue_count(sem.wait_q) > 0)
            => ev'.r = ERR_TASK_BUSY /\ sem' = sem
       /\ (/\ mo_mutex_destroy(t) /\ mutex_is_valid(mtx)
           /\ (mtx.owner_tid # 0 \/ mtx.waiters # <<>>))
            => ev'.r = ERR_TASK_BUSY /\ mtx' = mtx
       /\ (mo_cond_destroy(t) /\ cond_is_valid(cnd) /\ cnd.waiters # <<>>)
            => ev'.r = ERR_TASK_BUSY /\ cnd' = cnd
       /\ (mo_mq_destroy(t) /\ queue_count(mq.q) # 0)
            => ev'.r = ERR_MQ_NOTEMPTY /\ mq' = mq]_vars


\* C14: in every state from the launch of the first task on, exactly one task
\* has state RUNNING.
C14_OneRunning == Cardinality({t \in Tasks : state[t] = TASK_RUNNING}) = 1


\* number of entries of task t in list l
Occurrences(l, t) == Cardinality({i \in 1..Len(l) : l[i] = t})

\* number of wait-set entries of task t over the semaphore queue, the mutex
\* waiters and the condition variable's waiters
WaitEntries(t) ==
  Occurrences(sem.wait_q, t) + Occurrences(mtx.waiters, t) + Occurrences(cnd.waiters, t)

\* C15: every task is in at most one wait set, at most once, and every task
\* that is in a wait set has state BLOCKED.
C15_WaitSetMembership ==
  \A t \in Tasks :
    /\ WaitEntries(t) <= 1
    /\ WaitEntries(t) = 1 => state[t] = TASK_BLOCKED


\* C16: a BLOCKED task is either on exactly one wait set with delay = 0, or on
\* no wait set with delay > 0.
C16_BlockedReason ==
  \A t \in Tasks :
    state[t] = TASK_BLOCKED =>
      \/ WaitEntries(t) = 1 /\ delay[t] = 0
      \/ WaitEntries(t) = 0 /\ delay[t] > 0


\* C17: after any sequence of mo_task_spawn and mo_task_cancel calls the value
\* mo_task_count() returns equals the number of tasks on the kernel task list.
C17_TaskCount == task_count = Len(tasks)

\* a cancel has just succeeded after a spawn, with fewer tasks than at boot
C17_Witness ==
  /\ ev.op = "cancel" /\ ev.r = ERR_OK
  /\ next_tid \notin TidStart
  /\ Len(tasks) < NTasks

\* C18: every id mo_task_spawn assigns is non-zero and greater than the id of
\* every task alive (all of which were returned by earlier spawns), hence
\* different from them.
C18_UniqueIds ==
  [][\A t \in Tasks :
       (mo_task_spawn(t) /\ FreeTcbs # {})
         => /\ tid'[malloc_tcb] # 0
            /\ \A n \in Tasks : InList(tasks, n) => tid'[malloc_tcb] > tid[n]]_vars

\* C19: mo_task_cancel(id) returns ERR_TASK_CANT_REMOVE for id 0, the caller's
\* own id and the id of a RUNNING task, ERR_TASK_NOT_FOUND when no task on the
\* list has the id, both without changing the list, task_count or any TCB;
\* otherwise it returns ERR_OK and takes a task with that id off the list.  A
\* TCB that is not on the list is never the current task and never RUNNING.
C19_Cancel ==
  [][/\ \A t \in Tasks : \A id \in CancelIds :
          mo_task_cancel(t, id) =>
            IF \/ id = 0
               \/ id = tid[task_current]
               \/ \E n \in Tasks : InList(tasks, n) /\ tid[n] = id
                                     /\ state[n] = TASK_RUNNING
            THEN /\ ev'.r = ERR_TASK_CANT_REMOVE
                 /\ UNCHANGED <<tasks, task_count, state, prio, delay, tid>>
            ELSE IF ~\E n \in Tasks : InList(tasks, n) /\ tid[n] = id
            THEN /\ ev'.r = ERR_TASK_NOT_FOUND
                 /\ UNCHANGED <<tasks, task_count, state, prio, delay, tid>>
            ELSE /\ ev'.r = ERR_OK
                 /\ \E n \in Tasks : /\ InList(tasks, n) /\ tid[n] = id
                                     /\ tasks' = list_remove_data(tasks, n)
                 /\ task_count' = task_count - 1
     /\ InList(tasks', task_current')
     /\ \A n \in Tasks : ~InList(tasks', n) => state'[n] # TASK_RUNNING]_vars

\* a task was cancelled, and a later tick has switched to another task
C19_Witness ==
  /\ Len(tasks) < NTasks
  /\ ev.op = "tick"
  /\ task_current # 1
  /\ \E n \in Tasks : ~InList(tasks, n) /\ state[n] = TASK_READY


\* C20: a task that was suspended while BLOCKED and whose block condition is
\* not yet satisfied (it is still on a wait set, or its delay has not run out)
\* does not become READY when it is resumed.
C20_ResumeKeepsBlock ==
  [][\A t \in AppTasks : \A id \in AppTasks :
       (/\ mo_task_resume(t, id)
        /\ state[id] = TASK_SUSPENDED
        /\ (WaitEntries(id) > 0 \/ delay[id] > 0))
         => state'[id] # TASK_READY]_vars


\* mo_task_delay among tasks that only yield and delay
SpecDelay == InitIdleLow /\ [][SwitchNext \/ DelayNext]_vars

\* C21: mo_task_delay(n) with n > 0, called when mo_ticks() = T, does not
\* return before mo_ticks() >= T + n.
C21_DelayLowerBound ==
  [][\A t \in AppTasks :
       mo_task_delay_return(t) => ticks >= delay_until[t]]_vars


\* application tasks that set priorities and then count and yield for ever,
\* in cooperative mode
ShareNext ==
  \/ \E t \in AppTasks : \E id \in 0..NTasks : \E p \in SharePrios :
       mo_task_priority_setup(t, id, p)
  \/ \E t \in AppTasks : count_and_yield(t)

InitShare == Init /\ ~preemptive /\ sem_initial = 0

SpecShare == InitShare /\ [][ShareNext]_vars

\* the number of times the scheduler has selected task t: the first task was
\* launched by main() without being selected
Selections(t) ==
  runs[t] + (IF task_current = t THEN 1 ELSE 0) - (IF t = 1 THEN 1 ELSE 0)

\* the number of times the ready walk has visited task t since its priority
\* was set: Base(prio) visits for every selection, and those counted down since
Visits(t) == Base(prio[t]) * Selections(t) + (Base(prio[t]) - Counter(prio[t]))

\* C22: permanently READY tasks are visited by the ready walk in turn, a task
\* with base weight w is selected once per w visits, and so a HIGH task is
\* selected between 4 and 5 times as often as a NORMAL one (as long as the
\* kernel has not halted).
C22_WeightedShare ==
  ~panicked =>
  /\ \A t \in AppTasks : \A u \in AppTasks :
       Visits(t) - Visits(u) \in {-1, 0, 1}
  /\ \A t \in AppTasks : Selections(t) = Visits(t) \div Base(prio[t])
  /\ \A a \in AppTasks : \A b \in AppTasks :
       (Base(prio[a]) = Base(TASK_PRIO_NORMAL) /\ Base(prio[b]) = Base(TASK_PRIO_HIGH))
         => /\ 4 * Selections(a) <= Selections(b)
            /\ Selections(b) <= 5 * (Selections(a) + 1)

C22_Witness ==
  \E a \in AppTasks : \E b \in AppTasks :
    /\ Base(prio[a]) = Base(TASK_PRIO_NORMAL)
    /\ Base(prio[b]) = Base(TASK_PRIO_HIGH)
    /\ Selections(a) >= 2
    /\ Selections(b) >= 8


\* task 1 writes, task 2 reads, task 3 reads without blocking and flushes
PipeNext ==
  \/ \E len \in 0..MaxLen : mo_pipe_write(1, len)
  \/ \E len \in 0..MaxLen : mo_pipe_nbwrite(1, len)
  \/ \E len \in 0..MaxLen : mo_pipe_read(2, len)
  \/ \E len \in 0..MaxLen : mo_pipe_nbread(2, len)
  \/ \E len \in 0..MaxLen : mo_pipe_nbread(3, len)
  \/ mo_pipe_flush(3)
  \/ \E t \in AppTasks : pipe_wait_until_readable(t)
  \/ \E t \in AppTasks : pipe_wait_until_writable(t)
  \/ \E t \in AppTasks : mo_task_wfi(t)
  \/ \E t \in AppTasks : mo_task_wfi_return(t)
  \/ \E t \in AppTasks : mo_pipe_read_get(t)
  \/ \E t \in AppTasks : mo_pipe_write_put(t)

SpecPipe == InitMutex /\ [][SwitchNext \/ PipeNext]_vars

\* C23: 0 <= used <= capacity, the capacity is a power of two, head and tail
\* are below the capacity, and used is the distance from head to tail (the
\* capacity when the pipe is full).
C23_PipeBounds ==
  LET capacity == pipe.mask + 1 IN
  /\ 0 <= pipe.used /\ pipe.used <= capacity
  /\ ispowerof2(capacity)
  /\ pipe.head < capacity /\ pipe.tail < capacity
  /\ \/ pipe.used = (pipe.tail - pipe.head) % capacity
     \/ pipe.used = capacity /\ pipe.head = pipe.tail


\* several tasks that use the pipe through the non-blocking calls only
PipeNbNext ==
  \/ \E t \in AppTasks : \E len \in 0..MaxLen : mo_pipe_nbwrite(t, len)
  \/ \E t \in AppTasks : \E len \in 0..MaxLen : mo_pipe_nbread(t, len)

SpecPipeNb == InitMutex /\ [][SwitchNext \/ PipeNbNext]_vars

\* the bytes in the pipe, oldest first
PipeContents(p) ==
  [k \in 1..p.used |-> p.buf[and_mask(p.head + k - 1, p.mask)]]

Min(a, b) == IF a <= b THEN a ELSE b

PipeCoopNext ==
  \/ \E t \in AppTasks : mo_task_yield(t)
  \/ \E len \in 0..MaxLen : mo_pipe_write(1, len)
  \/ \E len \in 0..MaxLen : mo_pipe_nbwrite(1, len)
  \/ \E len \in 0..MaxLen : mo_pipe_read(2, len)
  \/ \E len \in 0..MaxLen : mo_pipe_nbread(2, len)
  \/ \E t \in AppTasks : pipe_wait_until_readable(t)
  \/ \E t \in AppTasks : pipe_wait_until_writable(t)
  \/ \E t \in AppTasks : mo_task_wfi(t)
  \/ \E t \in AppTasks : mo_pipe_read_get(t)
  \/ \E t \in AppTasks : mo_pipe_write_put(t)

InitPipeCoop == InitMutex /\ ~preemptive

\* the steps of the loops  while (pipe_is_empty(p)) mo_task_wfi();  and
\* while (pipe_is_full(p)) mo_task_wfi();
PipeWaitLoop ==
  \E t \in AppTasks :
    pipe_wait_until_readable(t) \/ pipe_wait_until_writable(t) \/ mo_task_wfi(t)

\* the running task keeps executing the loop it is in
SpecPipeCoop == InitPipeCoop /\ [][PipeCoopNext]_vars /\ WF_vars(PipeWaitLoop)

\* C25: a task that finds the pipe full (or empty) in a blocking call lets
\* another task run while it waits.
C25_WaiterLetsOthersRun ==
  \A t \in AppTasks :
    (task_current = t /\ pc[t] \in {"rd_wfi_enter", "wr_wfi_enter"})
      ~> (task_current # t)


\* tasks that start and cancel the timers, under the tick
TimerNext ==
  \/ dispatcher
  \/ \E t \in AppTasks : \E k \in 0..NTimers :
       \E mode \in {TIMER_DISABLED, TIMER_ONESHOT, TIMER_AUTORELOAD} :
         mo_timer_start(t, TimerId(k), mode)
  \/ \E t \in AppTasks : \E k \in 0..NTimers : mo_timer_cancel(t, TimerId(k))

\* the values kcb->ticks has when the run starts: 0 after the boot, and two
\* ticks before the counter wraps after a long uptime
TickStart == {0, -2}

InitTimer ==
  \E t0 \in TickStart :
    InitAt(NTasks + 1, TASK_PRIO_CRIT, t0) /\ preemptive /\ sem_initial = 0

SpecTimer == InitTimer /\ [][TimerNext]_vars

\* C26: when a timer's callback is invoked, at least MS_TO_TICKS(period_ms)
\* ticks have passed since the timer was started (or re-armed by a reload),
\* and a timer that is reloaded gets the deadline now + MS_TO_TICKS(period_ms).
C26_TimerDeadline ==
  [][\A k \in Timers :
       timer_fires'[k] = timer_fires[k] + 1 =>
         /\ timer_age[k] + 1 >= MS_TO_TICKS(timers[k].period_ms)
         /\ timers[k].mode = TIMER_AUTORELOAD =>
              timers'[k].deadline_ticks =
                add32(ticks', MS_TO_TICKS(timers[k].period_ms))]_vars


\* C27: the callback of a ONESHOT timer is invoked once per start, when its
\* period has passed, and the timer is then DISABLED and off the active list;
\* an AUTORELOAD timer is invoked every time its period has passed and stays
\* armed; a DISABLED timer is not on the active list and is not invoked.
C27_OneshotAutoreload ==
  [][\A k \in Timers :
       /\ timer_fires'[k] = timer_fires[k] + 1 =>
            /\ timers[k].mode # TIMER_DISABLED
            /\ timers[k].mode = TIMER_ONESHOT =>
                 /\ timer_fires[k] = 0
                 /\ timers'[k].mode = TIMER_DISABLED
                 /\ ~InList(timer_list', k)
            /\ timers[k].mode = TIMER_AUTORELOAD =>
                 /\ timers'[k].mode = TIMER_AUTORELOAD
                 /\ Occurrences(timer_list', k) = 1
       /\ (/\ ticks' # ticks
           /\ timers[k].mode # TIMER_DISABLED
           /\ timer_age[k] + 1 >= MS_TO_TICKS(timers[k].period_ms))
            => timer_fires'[k] = timer_fires[k] + 1
       /\ timers'[k].mode = TIMER_DISABLED => ~InList(timer_list', k)
       /\ timers'[k].mode = TIMER_ONESHOT => timer_fires'[k] = 0]_vars

C27_Witness ==
  \E k \in Timers : \E j \in Timers :
    /\ timers[k].mode = TIMER_AUTORELOAD /\ timer_fires[k] >= 2
    /\ timers[j].mode = TIMER_DISABLED /\ timer_fires[j] = 1
    /\ ~InList(timer_list, j)


\* The application goes on using the semaphore, the mutex and the condition
\* variable after it has destroyed them: every call below is made on an object
\* whose magic is no longer valid.
StaleNext ==
  \/ \E t \in AppTasks : mo_sem_destroy(t)
  \/ \E t \in AppTasks : mo_mutex_destroy(t)
  \/ \E t \in AppTasks : mo_cond_destroy(t)
  \/ \E t \in AppTasks : ~sem_is_valid(sem) /\ mo_sem_wait(t)
  \/ \E t \in AppTasks : ~sem_is_valid(sem) /\ mo_sem_trywait(t)
  \/ \E t \in AppTasks : ~sem_is_valid(sem) /\ mo_sem_signal(t)
  \/ \E t \in AppTasks : ~mutex_is_valid(mtx) /\ mo_mutex_lock(t)
  \/ \E t \in AppTasks : ~mutex_is_valid(mtx) /\ mo_mutex_trylock(t)
  \/ \E t \in AppTasks : \E n \in 0..MaxTimeout :
       ~mutex_is_valid(mtx) /\ mo_mutex_timedlock(t, n)
  \/ \E t \in AppTasks : ~mutex_is_valid(mtx) /\ mo_mutex_unlock(t)
  \/ \E t \in AppTasks :
       (~cond_is_valid(cnd) \/ ~mutex_is_valid(mtx)) /\ mo_cond_wait(t)
  \/ \E t \in AppTasks : \E n \in 0..MaxTimeout :
       (~cond_is_valid(cnd) \/ ~mutex_is_valid(mtx)) /\ mo_cond_timedwait(t, n)
  \/ \E t \in AppTasks : ~cond_is_valid(cnd) /\ mo_cond_signal(t)
  \/ \E t \in AppTasks : ~cond_is_valid(cnd) /\ mo_cond_broadcast(t)

SpecStale == InitMutex /\ [][SwitchNext \/ StaleNext]_vars

\* the calls of the semaphore, of the mutex, and of the condition variable
SemOps == {"sem_wait", "sem_trywait", "sem_signal"}
MutexOps == {"mutex_lock", "mutex_trylock", "mutex_timedlock", "mutex_unlock"}
CondOps == {"cond_wait", "cond_signal", "cond_broadcast"}

\* the step is a call of kind o made on an invalid object
StaleCall(o) ==
  /\ ev'.op = o
  /\ \/ o \in SemOps /\ ~sem_is_valid(sem)
     \/ o \in MutexOps /\ ~mutex_is_valid(mtx)
     \/ o \in CondOps /\ ~cond_is_valid(cnd)
     \/ o = "cond_wait" /\ ~mutex_is_valid(mtx)

HandOverNext ==
  \/ \E t \in AppTasks : mo_sem_wait(t)
  \/ \E t \in AppTasks : mo_sem_signal(t)
  \/ \E t \in AppTasks : mo_mutex_lock(t)
  \/ \E t \in AppTasks : mo_mutex_unlock(t)

SpecHandOver == Init /\ [][SchedNext \/ HandOverNext]_vars

\* C29: once a task that blocked in the slow path of mo_sem_wait or of
\* mo_mutex_lock has been switched out, the spinlock it held is free again, and
\* no task spins on the semaphore or mutex spinlock.
C29_LockHandedOver ==
  \A t \in AppTasks :
    /\ (pc[t] = "sem_blocked" /\ task_current # t) => semaphore_lock = 0
    /\ (pc[t] = "lock_blocked" /\ task_current # t) => mutex_lock = 0
    /\ pc[t] \notin SpinPcs


\* The five blocking calls: task 1 locks the mutex and waits on the condition
\* variable, with and without a timeout; task 2 locks the mutex, with and
\* without a timeout, signals and unlocks; task 3 waits on the semaphore.  No
\* task is suspended or resumed here, so no task is switched in again inside
\* _sched_block or mutex_block_atomic and the steps that return from there do
\* not occur.
BlockNext ==
  \/ mo_mutex_lock(1)
  \/ mo_cond_wait(1)
  \/ mo_cond_wait_unlock(1)
  \/ mo_cond_wait_yield(1)
  \/ mo_cond_wait_lock(1)
  \/ \E n \in 1..MaxTimeout : mo_cond_timedwait(1, n)
  \/ mo_cond_timedwait_enter(1)
  \/ mo_cond_timedwait_unlock(1)
  \/ mo_cond_timedwait_wait(1)
  \/ mo_cond_timedwait_final(1)
  \/ mo_cond_timedwait_lock(1)
  \/ mo_mutex_lock(2)
  \/ \E n \in 1..MaxTimeout : mo_mutex_timedlock(2, n)
  \/ mo_mutex_timedlock_enter(2)
  \/ mo_mutex_timedlock_wait(2)
  \/ mo_mutex_timedlock_final(2)
  \/ mo_cond_signal(2)
  \/ mo_mutex_unlock(2)
  \/ mo_sem_wait(3)

SpecBlock == InitMutex /\ [][SwitchNext \/ BlockNext]_vars

\* task t is on the wait set of the semaphore, the mutex or the condition variable
OnWaitSet(t) ==
  \/ InList(sem.wait_q, t)
  \/ InList(mtx.waiters, t)
  \/ InList(cnd.waiters, t)

\* C30: the tick interrupt never arrives while the running task is on a wait
\* set or marked BLOCKED: a blocking call puts its caller on the wait set,
\* marks it BLOCKED and switches away with interrupts disabled throughout.
C30_AtomicBlock ==
  [][ticks' # ticks =>
       \A t \in AppTasks :
         task_current = t => ~OnWaitSet(t) /\ state[t] # TASK_BLOCKED]_vars


\* C31: each mo_sem_signal call does one of two things: with an empty wait
\* queue it adds one to count (up to SEM_MAX_COUNT) and wakes nobody; with a
\* non-empty wait queue it removes the oldest waiter, makes it READY and
\* leaves count unchanged.
C31_TokenPassing ==
  [][\A t \in AppTasks :
       mo_sem_signal(t)
         => IF sem.wait_q = <<>>
            THEN /\ sem'.count = IF sem.count < SEM_MAX_COUNT
                                 THEN sem.count + 1 ELSE sem.count
                 /\ sem'.wait_q = <<>>
                 /\ state' = state
            ELSE /\ sem'.count = sem.count
                 /\ sem'.wait_q = Tail(sem.wait_q)
                 /\ state[Head(sem.wait_q)] = TASK_BLOCKED
                 /\ state'[Head(sem.wait_q)] # TASK_BLOCKED]_vars


\* Tasks that yield; task 1 changes its priority and that of the idle task
\* and sets or clears the rt hook of task 2; task 3 sleeps and is suspended and resumed.  kcb->rt_sched is the default
\* noop_rtsched, which selects nothing.
SelectPrios == {TASK_PRIO_CRIT, TASK_PRIO_REALTIME}

SelectNext ==
  \/ dispatcher
  \/ \E t \in AppTasks : mo_task_yield(t)
  \/ \E id \in {1, NTasks} : \E p \in SelectPrios :
       mo_task_priority(1, id, p)
  \/ \E hook \in BOOLEAN : mo_task_rt_priority(1, 2, hook)
  \/ \E t \in {2, 3} : mo_task_suspend(t, 3)
  \/ mo_task_suspend_yield(3)
  \/ mo_task_resume(2, 3)
  \/ mo_task_delay(3, 1)
  \/ mo_task_delay_yield(3)
  \/ mo_task_delay_return(3)

SpecSelect == Init /\ [][SelectNext]_vars

\* a step that runs schedule_next_task
SchedStep ==
  \/ dispatcher
  \/ \E t \in AppTasks :
       mo_task_yield(t) \/ mo_task_suspend_yield(t) \/ mo_task_delay_yield(t)

\* the state the search finds task n in: the task that was running has been
\* marked READY, and a delay that ends in this switch has made its task READY
SeenState(n) ==
  IF n = task_current /\ state[n] = TASK_RUNNING THEN TASK_READY
  ELSE IF /\ ticks' # ticks \/ ~preemptive
          /\ state[n] = TASK_BLOCKED /\ delay[n] = 1
  THEN TASK_READY
  ELSE state[n]

Eligible(n) == InList(tasks, n) /\ SeenState(n) = TASK_READY /\ ~rt_prio[n]

\* how far after the current task n comes in the circular task list
Dist(n) ==
  ((list_index(tasks, n) - list_index(tasks, task_current) - 1 + Len(tasks))
     % Len(tasks)) + 1

\* the number of visits after which n's countdown byte is zero
Need(n) == IF Counter(prio[n]) = 0 THEN 1 ELSE Counter(prio[n])

\* C32: a switch that selects a task selects one that is READY and has no rt
\* hook; it is the first in the circular walk whose countdown byte reaches
\* zero, every eligible task having lost one count per visit (not below zero);
\* it gets its countdown reloaded from its base byte and becomes RUNNING.  A
\* task that is not READY or has an rt hook is not made RUNNING and keeps its
\* priority word.
C32_ReadySelection ==
  [][(SchedStep /\ ~panicked') =>
       LET n == task_current'
           visits(m) == IF Dist(m) <= Dist(n) THEN Need(n) ELSE Need(n) - 1
       IN /\ Eligible(n)
          /\ state'[n] = TASK_RUNNING
          /\ prio'[n] = Base(prio[n]) * 256 + Base(prio[n])
          /\ \A m \in Tasks \ {n} :
               IF Eligible(m)
               THEN /\ Need(m) > visits(m)
                    /\ Base(prio'[m]) = Base(prio[m])
                    /\ Counter(prio'[m]) =
                         IF Counter(prio[m]) > visits(m)
                         THEN Counter(prio[m]) - visits(m) ELSE 0
                    /\ state'[m] = TASK_READY
               ELSE /\ prio'[m] = prio[m]
                    /\ state'[m] = SeenState(m)
                    /\ state'[m] # TASK_RUNNING]_vars

\* a switch has selected a task while a READY task whose countdown was not
\* yet zero lost a count, one READY task with an rt hook was passed over and
\* one task was SUSPENDED
C32_Witness ==
  /\ ~panicked
  /\ state[task_current] = TASK_RUNNING
  /\ Counter(prio[task_current]) = Base(prio[task_current])
  /\ \E m \in Tasks : /\ ~rt_prio[m] /\ state[m] = TASK_READY
                      /\ Counter(prio[m]) < Base(prio[m])
  /\ \E m \in AppTasks : rt_prio[m] /\ state[m] = TASK_READY
  /\ \E m \in AppTasks : state[m] = TASK_SUSPENDED


\* app_main has created NBatch timers; task 1 starts them one after the other
\* before the first tick, each as ONESHOT or AUTORELOAD
BatchTimers == 1..NBatch

InitBatch ==
  /\ InitKernel(NTasks + 1, TASK_PRIO_CRIT, 0)
  /\ InitTimers(BatchTimers, [k \in BatchTimers |-> NoTimerCall])
  /\ preemptive
  /\ sem_initial = 0

BatchNext ==
  \/ dispatcher
  \/ \E k \in BatchTimers : \E mode \in {TIMER_ONESHOT, TIMER_AUTORELOAD} :
       /\ ticks = 0
       /\ timers[k].mode = TIMER_DISABLED
       /\ \A j \in 1..(k - 1) : timers[j].mode # TIMER_DISABLED
       /\ mo_timer_start(1, TimerId(k), mode)

SpecBatch == InitBatch /\ [][BatchNext]_vars

\* timer k is on the active list and its deadline has passed at tick now
Expired(k, now) ==
  InList(timer_list, k) /\ u32_ge(now, timers[k].deadline_ticks)

\* the timers whose callback is invoked in this step
Fired == {k \in DOMAIN timers : timer_fires'[k] = timer_fires[k] + 1}

\* C33: a tick invokes the callbacks of the expired timers among the first 8
\* of the active list and of no other timer, so at most 8; an expired timer
\* beyond them keeps its deadline and mode and moves 8 places up the list, so
\* that the expired timers left over head the list in their old order and are
\* the first to fire at the next tick.
C33_TimerBatch ==
  [][ticks' # ticks =>
       LET nexp == Cardinality({k \in DOMAIN timers : Expired(k, ticks')})
       IN /\ Cardinality(Fired) = Min(nexp, TIMER_BATCH)
          /\ \A i \in 1..Len(timer_list) :
               LET k == timer_list[i] IN
               Expired(k, ticks') =>
                 IF i <= TIMER_BATCH
                 THEN k \in Fired
                 ELSE /\ k \notin Fired
                      /\ timer_list'[i - TIMER_BATCH] = k
                      /\ timers'[k] = timers[k]]_vars

\* the first tick has fired 8 timers and left an expired one on the list
C33_Witness ==
  /\ ticks = 1
  /\ Cardinality({k \in DOMAIN timers : timer_fires[k] = 1}) = TIMER_BATCH
  /\ \E k \in DOMAIN timers : Expired(k, ticks)


\* tasks that start, cancel and destroy the timers, under the tick
TimerLifeNext ==
  \/ TimerNext
  \/ \E t \in AppTasks : \E k \in 0..NTimers : mo_timer_destroy(t, TimerId(k))

SpecTimerLife == InitTimer /\ [][TimerLifeNext]_vars

\* the deadlines along the list l never decrease (as uint32_t values)
DeadlineSorted(l, tm) ==
  \A i \in 1..Len(l) : \A j \in (i + 1)..Len(l) :
    u32_ge(tm[l[j]].deadline_ticks, tm[l[i]].deadline_ticks)

\* timer k, put on the list in this step, stands behind every timer whose
\* deadline is not later than its own and before every other one; timers
\* reloaded in the same tick go in in the order in which they were popped
InsertedInOrder(k) ==
  LET pos == list_index(timer_list', k)
      dk == timers'[k].deadline_ticks
  IN /\ \A i \in 1..(pos - 1) :
          u32_ge(dk, timers'[timer_list'[i]].deadline_ticks)
     /\ \A i \in (pos + 1)..Len(timer_list') :
          LET o == timer_list'[i] IN
          \/ u32_lt(dk, timers'[o].deadline_ticks)
          \/ /\ o \in Fired /\ k \in Fired
             /\ list_index(timer_list, k) < list_index(timer_list, o)

\* C34: the active list is always sorted by deadline_ticks in ascending order;
\* a timer that mo_timer_start or a reload puts on the list goes behind the
\* timers with the same deadline; and a tick that finds the head of the list
\* unexpired finds no expired timer on the list and fires none.
C34_SortedActive ==
  [][/\ DeadlineSorted(timer_list', timers')
     /\ \A k \in DOMAIN timers :
          ((\E t \in AppTasks : \E mode \in {TIMER_ONESHOT, TIMER_AUTORELOAD} :
              mo_timer_start(t, TimerId(k), mode)) /\ InList(timer_list', k))
            => InsertedInOrder(k)
     /\ \A k \in Fired : InList(timer_list', k) => InsertedInOrder(k)
     /\ (/\ ticks' # ticks /\ timer_list # <<>>
         /\ ~Expired(Head(timer_list), ticks'))
          => /\ \A k \in DOMAIN timers : ~Expired(k, ticks')
             /\ Fired = {}
             /\ timer_list' = timer_list]_vars

\* mo_timer_start has just put a timer on a list that now holds two timers
\* with the same deadline
C34_Witness ==
  /\ ev.op = "timer_start"
  /\ Len(timer_list) = 2
  /\ timers[timer_list[1]].deadline_ticks = timers[timer_list[2]].deadline_ticks


\* Task 1 waits on the semaphore (created with no token) or locks the mutex,
\* task 2 locks the mutex and waits on the condition variable, task 3 cancels
\* them.  No task is suspended or resumed here, so a blocked task is never
\* switched in again.
CancelWaitNext ==
  \/ mo_sem_wait(1)
  \/ mo_mutex_lock(1)
  \/ mo_mutex_lock(2)
  \/ mo_cond_wait(2)
  \/ mo_cond_wait_unlock(2)
  \/ mo_cond_wait_yield(2)
  \/ \E id \in {1, 2} : mo_task_cancel(3, id)

SpecCancelWait == InitMutex /\ [][SwitchNext \/ CancelWaitNext]_vars

\* C35: mo_task_cancel of a task that is BLOCKED on the wait set of the
\* semaphore, the mutex or the condition variable returns ERR_OK and takes the
\* task off the task list, and leaves the three wait sets as they were, so
\* that the cancelled task is still on its wait set.
C35_CancelWaiter ==
  [][\A id \in {1, 2} :
       (/\ mo_task_cancel(3, id)
        /\ InList(tasks, id) /\ state[id] = TASK_BLOCKED /\ OnWaitSet(id))
         => /\ ev'.r = ERR_OK
            /\ ~InList(tasks', id)
            /\ sem'.wait_q = sem.wait_q
            /\ mtx'.waiters = mtx.waiters
            /\ cnd'.waiters = cnd.waiters]_vars

\* both waiters are cancelled: one is still queued on the semaphore, the other
\* on the condition variable
C35_Witness ==
  /\ ev.op = "cancel"
  /\ ~InList(tasks, 1) /\ InList(sem.wait_q, 1)
  /\ ~InList(tasks, 2) /\ InList(cnd.waiters, 2)


\* Cooperative mode: application tasks that change priorities and call
\* mo_task_yield, and the idle task.
CoopYield == \E t \in AppTasks : mo_task_yield(t)

CoopNext ==
  \/ CoopYield
  \/ \E t \in AppTasks : \E id \in Tasks : \E p \in SelectPrios :
       mo_task_priority(t, id, p)
  \/ idle_task

\* every application task that runs calls mo_task_yield in the end
SpecCoop == InitShare /\ [][CoopNext]_vars /\ WF_vars(CoopYield)

\* C36: in cooperative mode, with application tasks that keep calling
\* mo_task_yield, every application task is the running task again and again.
C36_NoStarvation ==
  \A t \in AppTasks : []<>(task_current = t /\ state[t] = TASK_RUNNING)


\* C37: the kernel has not halted in schedule_next_task while a task on the
\* task list is READY (or was the running task, which the switch makes READY)
\* and has no rt hook.
C37_NoPanicWhileReady ==
  (panicked /\ ev.op = "yield")
    => ~\E n \in Tasks : /\ InList(tasks, n)
                         /\ state[n] \in {TASK_READY, TASK_RUNNING}
                         /\ ~rt_prio[n]


\* A run that starts two ticks before kcb->ticks wraps: task 1 starts the
\* timers, task 2 locks the mutex and task 3 tries to lock it with a timeout.
WrapNext ==
  \/ \E k \in Timers : \E mode \in {TIMER_ONESHOT, TIMER_AUTORELOAD} :
       mo_timer_start(1, TimerId(k), mode)
  \/ mo_mutex_lock(2)
  \/ \E n \in 1..MaxTimeout : mo_mutex_timedlock(3, n)
  \/ mo_mutex_timedlock_enter(3)
  \/ mo_mutex_timedlock_wait(3)
  \/ mo_mutex_timedlock_final(3)

InitWrap == InitAt(NTasks + 1, TASK_PRIO_CRIT, -2) /\ preemptive /\ sem_initial = 0

SpecWrap == InitWrap /\ [][SwitchNext \/ WrapNext]_vars

\* C39: across the wrap of the tick counter a timer's callback is not invoked
\* before MS_TO_TICKS(period_ms) ticks have passed since it was armed, and a
\* task in mo_mutex_timedlock that tests its deadline when the timeout has
\* passed stops waiting.  (Tick values are written so that the difference of
\* two of them is the number of ticks between them.)
C39_WrapHonoured ==
  [][/\ \A k \in Timers :
          timer_fires'[k] = timer_fires[k] + 1
            => timer_age[k] + 1 >= MS_TO_TICKS(timers[k].period_ms)
     /\ \A t \in AppTasks :
          (mo_mutex_timedlock_wait(t) /\ ticks >= deadline[t])
            => pc'[t] = "tl_final"]_vars


\* what the callback of timer 1 may do: nothing, start a timer or cancel one
TimerCalls ==
  {NoTimerCall}
    \cup {[op |-> "start", target |-> k, mode |-> m] :
            k \in Timers, m \in {TIMER_ONESHOT, TIMER_AUTORELOAD}}
    \cup {[op |-> "cancel", target |-> k, mode |-> TIMER_DISABLED] : k \in Timers}

InitCallback ==
  /\ InitKernel(NTasks + 1, TASK_PRIO_CRIT, 0)
  /\ \E cb \in TimerCalls :
       InitTimers(Timers, [k \in Timers |-> IF k = 1 THEN cb ELSE NoTimerCall])
  /\ preemptive
  /\ sem_initial = 0

\* no timer on the active list has been freed
ListIntact == \A i \in 1..Len(timer_list) : timers[timer_list[i]].live

\* Tasks that start, cancel and destroy the timers, under the tick.  The tick
\* handler and timer_sorted_insert read the timers on the active list; what
\* they do with a freed timer is undefined, and the run is followed up to
\* that point.
CallbackNext ==
  \/ ListIntact /\ dispatcher
  \/ \E t \in AppTasks : \E k \in Timers :
       \E mode \in {TIMER_ONESHOT, TIMER_AUTORELOAD} :
         ListIntact /\ mo_timer_start(t, TimerId(k), mode)
  \/ \E t \in AppTasks : \E k \in Timers : mo_timer_cancel(t, TimerId(k))
  \/ \E t \in AppTasks : \E k \in Timers : mo_timer_destroy(t, TimerId(k))

SpecCallback == InitCallback /\ [][CallbackNext]_vars

\* C38: a timer that has not been destroyed is on the active list exactly when
\* its mode is not DISABLED, and at most once; every timer on the active list
\* has not been destroyed.
C38_ActiveListConsistent ==
  /\ \A k \in Timers :
       timers[k].live =>
         /\ InList(timer_list, k) <=> timers[k].mode # TIMER_DISABLED
         /\ Occurrences(timer_list, k) <= 1
  /\ \A i \in 1..Len(timer_list) : timers[timer_list[i]].live

\* C40: the callback of a timer for which mo_timer_cancel or mo_timer_destroy
\* returned ERR_OK, and which has not been started since, is not invoked by a
\* later tick; and mo_timer_cancel returns ERR_OK for a timer that is on the
\* active list.
C40_CancelStops ==
  [][/\ \A k \in Timers :
          timer_fires'[k] = timer_fires[k] + 1 => ~timers[k].stopped
     /\ \A k \in Timers :
          ((\E t \in AppTasks : mo_timer_cancel(t, TimerId(k)))
             /\ timers[k].live /\ InList(timer_list, k))
            => ev'.r = ERR_OK]_vars

====
